---- MODULE Spec2Model ----
(***************************************************************************)
(* Catalog loader and structured product extractor of the e-mail marketing *)
(* generator (src/app.py, src/google_sheets.py).                           *)
(*                                                                         *)
(* Text is modelled as Python models it: a str is a sequence of code       *)
(* points, a bytes object a sequence of integers 0..255.  None is NoneVal. *)
(***************************************************************************)
EXTENDS Integers, Sequences, FiniteSets, TLC

VARIABLES
    fieldnames,   \* header row handed to the header canonicalizer
    mapping,      \* its result: canonical column -> real header
    hdr_tier,     \* which canonicalizer ran: "sheets" (google_sheets.py) | "local" (app.py)
    hdr_pc        \* "start" | "done"

headerVars == <<fieldnames, mapping, hdr_tier, hdr_pc>>

VARIABLES
    tbl_header,   \* a tabular source: its header row
    tbl_rows,     \* and its data rows, each a sequence of cells
    rows_tier,    \* the tier that read it: "file" | "text" | "api"
    rows_out,     \* the products that tier loaded from it
    rows_pc       \* "build" | "done"

rowsVars == <<tbl_header, tbl_rows, rows_tier, rows_out, rows_pc>>

VARIABLES
    probe_header, \* a table written to a file or a response: its header row
    probe_rows,   \* its data rows
    probe_enc,    \* the encoding it was written in ("str": response text)
    probe_delim,  \* the delimiter it was written with
    probe_out,    \* the products loaded from it
    probe_base,   \* the products loaded from the same table as UTF-8 with ';'
    probe_pc      \* "build" | "done"

probeVars ==
    <<probe_header, probe_rows, probe_enc, probe_delim, probe_out, probe_base, probe_pc>>

VARIABLES
    environ,           \* os.environ: variable name -> str, None when unset
    sheets_module,     \* whether the import of google_sheets succeeded
    sheet,             \* the remote spreadsheet: unset when unreachable, else its data rows
    disk,              \* the names of the files that exist beside app.py
    clock,             \* time.time()
    _produtos_cache,   \* unset (None) or the cached list of products
    _cache_timestamp,  \* unset (None) or the time of the last cache write
    last_call,         \* the arguments of the last load, and the cache it found
    last_ret,          \* what the last load returned
    last_reads,        \* the source tiers the last load read, in order
    last_outcome,      \* "none" | "cached" | the tier that loaded | "failed" | "raised"
    first_load,         \* when the last load repeated the load before it: that load
    termo_busca,       \* the term of the last lookup, unset before any
    produto_achado     \* what the last lookup returned: unset (None) or the product

loadVars ==
    <<environ, sheets_module, sheet, disk, clock, _produtos_cache, _cache_timestamp,
      last_call, last_ret, last_reads, last_outcome, first_load, termo_busca, produto_achado>>

VARIABLES
    script_text,       \* the text of the script tag of a page
    n_pieces,          \* how many pieces it was written in
    embedded,          \* unset, or the state the page embeds and where its marker is
    apollo,            \* what _extract_apollo_state gave for the text
    extract_pc         \* "write" | "done"

extractVars == <<script_text, n_pieces, embedded, apollo, extract_pc>>

VARIABLES
    arg,               \* a value handed to _to_float: a str being typed, a number, a bool, None
    coerced,           \* what _to_float returned for it
    coerce_pc          \* "type" | "done"

coerceVars == <<arg, coerced, coerce_pc>>

VARIABLES
    soup,              \* the parsed markup of a product page: its elements in document order
    page_state,        \* the state the page embeds (the dict `apollo` of the loop)
    item,              \* what the loop body made of the page, and what it consulted
    item_pc            \* "build" | "done"

itemVars == <<soup, page_state, item, item_pc>>

VARIABLES
    produtos_info,           \* the items of the list the loop has read, each by its kind
    contador_produto,        \* the counter of the loop
    todos_os_produtos_html,  \* the blocks appended so far
    fetched,                 \* the positions of the items handed to session.get, in order
    session,                 \* "none" | "open": the requests.Session of the batch (no statement closes it)
    batch_pc                 \* "idle" | "loop" | "broke" | "raised" | "returned"

batchVars ==
    <<produtos_info, contador_produto, todos_os_produtos_html, fetched, session, batch_pc>>

vars == <<headerVars, rowsVars, probeVars, loadVars, extractVars, coerceVars, itemVars, batchVars>>

\* What each specification leaves alone.
headerOthers == <<rowsVars, probeVars, loadVars, extractVars, coerceVars, itemVars, batchVars>>

rowsOthers == <<headerVars, probeVars, loadVars, extractVars, coerceVars, itemVars, batchVars>>

probeOthers == <<headerVars, rowsVars, loadVars, extractVars, coerceVars, itemVars, batchVars>>

loadOthers == <<headerVars, rowsVars, probeVars, extractVars, coerceVars, itemVars, batchVars>>

extractOthers == <<headerVars, rowsVars, probeVars, loadVars, coerceVars, itemVars, batchVars>>

coerceOthers == <<headerVars, rowsVars, probeVars, loadVars, extractVars, itemVars, batchVars>>

itemOthers == <<headerVars, rowsVars, probeVars, loadVars, extractVars, coerceVars, batchVars>>

batchOthers == <<headerVars, rowsVars, probeVars, loadVars, extractVars, coerceVars, itemVars>>

(***************************************************************************)
(* Strings                                                                 *)
(***************************************************************************)
\* The printable ASCII characters from code point 32 on, in order.
AsciiPrintable == <<" ", "!", "\"", "#", "$", "%", "&", "'", "(", ")", "*", "+", ",", "-", ".", "/",
  "0", "1", "2", "3", "4", "5", "6", "7", "8", "9", ":", ";", "<", "=", ">", "?", "@",
  "A", "B", "C", "D", "E", "F", "G", "H", "I", "J", "K", "L", "M",
  "N", "O", "P", "Q", "R", "S", "T", "U", "V", "W", "X", "Y", "Z",
  "[", "\\", "]", "^", "_", "BACKTICK",
  "a", "b", "c", "d", "e", "f", "g", "h", "i", "j", "k", "l", "m",
  "n", "o", "p", "q", "r", "s", "t", "u", "v", "w", "x", "y", "z",
  "{", "|", "}", "~">>

Ord(c) == 31 + CHOOSE i \in 1..Len(AsciiPrintable) : AsciiPrintable[i] = c

\* The str whose characters are the one-character strings of t.
Str(t) == [i \in 1..Len(t) |-> Ord(t[i])]

\* None, kept apart from every str (no code point is negative).
NoneVal == <<-1>>

\* str(x): a str is itself, None prints as 'None'.
PyStr(x) == IF x = NoneVal THEN Str(<<"N", "o", "n", "e">>) ELSE x

\* Code points below 256 for which str.isspace() holds (also the class \s).
Whitespace == {9, 10, 11, 12, 13, 28, 29, 30, 31, 32, 133, 160}

\* U+FEFF, the byte order mark.
BOM == 65279

\* U+FFFD, what errors='replace' puts for an undecodable byte.
REPLACEMENT == 65533

UpperChar(c) ==
    IF c \in 97..122 THEN c - 32
    ELSE IF c \in 224..254 /\ c # 247 THEN c - 32
    ELSE c

LowerChar(c) ==
    IF c \in 65..90 THEN c + 32
    ELSE IF c \in 192..222 /\ c # 215 THEN c + 32
    ELSE c

upper(s) == [i \in 1..Len(s) |-> UpperChar(s[i])]

lower(s) == [i \in 1..Len(s) |-> LowerChar(s[i])]

RECURSIVE lstrip(_)
lstrip(s) ==
    IF s # <<>> /\ Head(s) \in Whitespace THEN lstrip(Tail(s)) ELSE s

RECURSIVE rstrip(_)
rstrip(s) ==
    IF s # <<>> /\ s[Len(s)] \in Whitespace
    THEN rstrip(SubSeq(s, 1, Len(s) - 1))
    ELSE s

strip(s) == rstrip(lstrip(s))

IsNotBOM(c) == c # BOM

IsNotSpace(c) == c \notin Whitespace

\* s is t[k .. k+Len(s)-1]
OccursAt(s, t, k) ==
    /\ k >= 1
    /\ k + Len(s) - 1 <= Len(t)
    /\ \A j \in 1..Len(s) : t[k + j - 1] = s[j]

\* s in t
Contains(s, t) == \E k \in 1..(Len(t) + 1) : OccursAt(s, t, k)

(***************************************************************************)
(* Header canonicalizer                                                    *)
(***************************************************************************)
_norm(s) ==
    IF s = NoneVal THEN <<>>
    ELSE upper(SelectSeq(strip(SelectSeq(s, IsNotBOM)), IsNotSpace))

COD_PRODUTO == Str(<<"C", "O", "D", "_", "P", "R", "O", "D", "U", "T", "O">>)

NOMEPRODUTOECOMM ==
    Str(<<"N", "O", "M", "E", "P", "R", "O", "D", "U", "T", "O", "E", "C", "O", "M", "M">>)

COD_BARRAS == Str(<<"C", "O", "D", "_", "B", "A", "R", "R", "A", "S">>)

URLECOMMERCEIMG ==
    Str(<<"U", "R", "L", "E", "C", "O", "M", "M", "E", "R", "C", "E", "I", "M", "G">>)

PRODUCTURL == Str(<<"P", "R", "O", "D", "U", "C", "T", "U", "R", "L">>)

expected == <<COD_PRODUTO, NOMEPRODUTOECOMM, COD_BARRAS, URLECOMMERCEIMG, PRODUCTURL>>

expected_norm == [i \in 1..Len(expected) |-> _norm(expected[i])]

aliases ==
    (Str(<<"C", "O", "D", "P", "R", "O", "D", "U", "T", "O">>) :> COD_PRODUTO)
    @@ (Str(<<"S", "K", "U">>) :> COD_PRODUTO)
    @@ (Str(<<"N", "O", "M", "E">>) :> NOMEPRODUTOECOMM)
    @@ (Str(<<"N", "O", "M", "E", "P", "R", "O", "D", "U", "T", "O">>) :> NOMEPRODUTOECOMM)
    @@ (Str(<<"N", "O", "M", "E", "_", "P", "R", "O", "D", "U", "T", "O">>) :> NOMEPRODUTOECOMM)
    @@ (Str(<<"D", "E", "S", "C", "R", "I", "C", "A", "O">>) :> NOMEPRODUTOECOMM)
    @@ (Str(<<"C", "O", "D", "B", "A", "R", "R", "A", "S">>) :> COD_BARRAS)
    @@ (Str(<<"E", "A", "N">>) :> COD_BARRAS)
    @@ (Str(<<"U", "R", "L", "I", "M", "G">>) :> URLECOMMERCEIMG)
    @@ (Str(<<"I", "M", "A", "G", "E", "M">>) :> URLECOMMERCEIMG)
    @@ (Str(<<"U", "R", "L", "I", "M", "A", "G", "E", "M">>) :> URLECOMMERCEIMG)
    @@ (Str(<<"U", "R", "L">>) :> PRODUCTURL)
    @@ (Str(<<"L", "I", "N", "K">>) :> PRODUCTURL)
    @@ (Str(<<"P", "R", "O", "D", "U", "C", "T", "_", "U", "R", "L">>) :> PRODUCTURL)
    @@ (Str(<<"U", "R", "L", "_", "P", "R", "O", "D", "U", "T", "O">>) :> PRODUCTURL)

\* {}: a dict with no key.
EmptyDict == [k \in {} |-> k]

\* d[k] = v
DictSet(d, k, v) == (k :> v) @@ d

\* d.setdefault(k, v)
DictSetDefault(d, k, v) == d @@ (k :> v)

\* d.get(k, default)
DictGet(d, k, default) == IF k \in DOMAIN d THEN d[k] ELSE default

\* expected_norm.index(n), for n in expected_norm
IndexOf(seq, n) == CHOOSE i \in 1..Len(seq) : seq[i] = n /\ \A j \in 1..(i - 1) : seq[j] # n

InSeq(seq, n) == \E i \in 1..Len(seq) : seq[i] = n

\* One turn of the loop over the detected headers (google_sheets.py).
MapHeaderLastAliasWins(m, real) ==
    LET norm_name == _norm(real) IN
    IF InSeq(expected_norm, norm_name)
    THEN DictSet(m, expected[IndexOf(expected_norm, norm_name)], real)
    ELSE IF norm_name \in DOMAIN aliases
    THEN DictSet(m, aliases[norm_name], real)
    ELSE m

MapHeaderStep(m, real) ==
    LET norm_name == _norm(real) IN
    IF InSeq(expected_norm, norm_name)
    THEN DictSet(m, expected[IndexOf(expected_norm, norm_name)], real)
    ELSE IF norm_name \in DOMAIN aliases
    THEN DictSetDefault(m, aliases[norm_name], real)
    ELSE m

RECURSIVE MapHeadersFrom(_, _, _)
MapHeadersFrom(fns, idx, m) ==
    IF idx > Len(fns) THEN m
    ELSE MapHeadersFrom(fns, idx + 1, MapHeaderStep(m, fns[idx]))

_map_headers(fns) == MapHeadersFrom(fns, 1, EmptyDict)

\* all(col in mapping for col in expected)
AllExpectedMapped(m) == \A i \in 1..Len(expected) : expected[i] \in DOMAIN m

\* The same loop, as the local-file tier writes it inline (app.py).
LocalMapStep(m, real) ==
    LET norm_name == _norm(real) IN
    IF InSeq(expected_norm, norm_name)
    THEN DictSet(m, expected[IndexOf(expected_norm, norm_name)], real)
    ELSE IF norm_name \in DOMAIN aliases
    THEN DictSetDefault(m, aliases[norm_name], real)
    ELSE m

RECURSIVE LocalMappingFrom(_, _, _)
LocalMappingFrom(fns, idx, m) ==
    IF idx > Len(fns) THEN m
    ELSE LocalMappingFrom(fns, idx + 1, LocalMapStep(m, fns[idx]))

LocalMapping(fns) == LocalMappingFrom(fns, 1, EmptyDict)

(***************************************************************************)
(* Tabular text: csv.reader and csv.DictReader on text that holds no quote *)
(* character and no carriage return (the reader's quoting states are then  *)
(* never entered).                                                         *)
(***************************************************************************)
SEMICOLON == Ord(";")

COMMA == Ord(",")

TAB == 9

PIPE == Ord("|")

NEWLINE == 10

delimiters == <<SEMICOLON, COMMA, TAB, PIPE>>

\* 1, 2, ..., n
Indices(n) == [i \in 1..n |-> i]

\* The pieces of s between occurrences of d (at least one piece).
SplitOn(s, d) ==
    LET at == SelectSeq(Indices(Len(s)), LAMBDA i : s[i] = d) IN
    [k \in 1..(Len(at) + 1) |->
        SubSeq(s,
               IF k = 1 THEN 1 ELSE at[k - 1] + 1,
               IF k > Len(at) THEN Len(s) ELSE at[k] - 1)]

\* The lines the reader is fed: a final line needs no line break.
Lines(text) ==
    LET p == SplitOn(text, NEWLINE) IN
    IF p[Len(p)] = <<>> THEN SubSeq(p, 1, Len(p) - 1) ELSE p

\* csv.reader(text, delimiter=delim): a blank line is the row [].
CsvReader(text, delim) ==
    LET ls == Lines(text) IN
    [i \in 1..Len(ls) |-> IF ls[i] = <<>> THEN <<>> ELSE SplitOn(ls[i], delim)]

\* reader.fieldnames or []: the first row read, [] when there is none.
ReaderFieldnames(all_rows) == IF all_rows = <<>> THEN <<>> ELSE all_rows[1]

IsNotEmptyRow(r) == r # <<>>

Min(a, b) == IF a < b THEN a ELSE b

\* The last column at or before upto that is named k.
LastColumn(fns, k, upto) ==
    CHOOSE i \in 1..upto : fns[i] = k /\ \A j \in (i + 1)..upto : fns[j] # k

\* DictReader.__next__: dict(zip(fieldnames, row)), the cells beyond the
\* header under the key None, the columns the row lacks set to None.
DictReaderRow(fns, row) ==
    LET lf == Len(fns)
        lr == Len(row)
        m == Min(lf, lr)
        keys == {fns[i] : i \in 1..lf} \cup (IF lf < lr THEN {NoneVal} ELSE {})
    IN  [k \in keys |->
            IF \E i \in (lr + 1)..lf : fns[i] = k THEN NoneVal
            ELSE IF lf < lr /\ k = NoneVal THEN SubSeq(row, lf + 1, lr)
            ELSE row[LastColumn(fns, k, m)]]

\* list(reader): the rows after the header row, blank rows skipped.
DictReaderRows(all_rows) ==
    LET fns == ReaderFieldnames(all_rows)
        data == SelectSeq(Tail(all_rows), IsNotEmptyRow)
    IN  [i \in 1..Len(data) |-> DictReaderRow(fns, data[i])]

(***************************************************************************)
(* Row filtering                                                           *)
(***************************************************************************)
SENTINEL_ZERO == Str(<<"0">>)

SENTINEL_DASH == Str(<<"-">>)

\* str(row.get(real, '')).strip()
CellOf(row, real) == strip(PyStr(DictGet(row, real, <<>>)))

\* not url or url in ('0', '-')
InvalidUrl(url) == url = <<>> \/ url \in {SENTINEL_ZERO, SENTINEL_DASH}

Produto(row, sku_h, nome_h, ean_h, imagem_h, url_h) ==
    [sku |-> CellOf(row, sku_h), nome |-> CellOf(row, nome_h), ean |-> CellOf(row, ean_h),
     imagem |-> CellOf(row, imagem_h), url |-> CellOf(row, url_h)]

RECURSIVE RowsToProdutosFrom(_, _, _, _)
RowsToProdutosFrom(rows, m, i, produtos) ==
    IF i > Len(rows) THEN produtos
    ELSE LET p == Produto(rows[i],
                          DictGet(m, COD_PRODUTO, <<>>), DictGet(m, NOMEPRODUTOECOMM, <<>>),
                          DictGet(m, COD_BARRAS, <<>>), DictGet(m, URLECOMMERCEIMG, <<>>),
                          DictGet(m, PRODUCTURL, <<>>))
         IN  RowsToProdutosFrom(rows, m, i + 1,
                                IF InvalidUrl(p.url) THEN produtos ELSE Append(produtos, p))

_rows_to_produtos(rows, m) == RowsToProdutosFrom(rows, m, 1, <<>>)

\* The local-file tier's own loop over the rows (m maps every expected column).
RECURSIVE ProdutosLidosFrom(_, _, _, _)
ProdutosLidosFrom(rows, m, i, produtos_lidos) ==
    IF i > Len(rows) THEN produtos_lidos
    ELSE LET p == Produto(rows[i], m[COD_PRODUTO], m[NOMEPRODUTOECOMM], m[COD_BARRAS],
                          m[URLECOMMERCEIMG], m[PRODUCTURL])
         IN  ProdutosLidosFrom(rows, m, i + 1,
                               IF InvalidUrl(p.url) THEN produtos_lidos
                               ELSE Append(produtos_lidos, p))

ProdutosLidos(rows, m) == ProdutosLidosFrom(rows, m, 1, <<>>)

(***************************************************************************)
(* Remote tiers (google_sheets.py)                                         *)
(***************************************************************************)
\* parse_csv_text, from the delimiter at index d on: the list of products,
\* [] when no delimiter gives the five columns and a valid row.
RECURSIVE ParseCsvTextFrom(_, _)
ParseCsvTextFrom(csv_text, d) ==
    IF d > Len(delimiters) THEN <<>>
    ELSE LET all_rows == CsvReader(csv_text, delimiters[d])
             fns == ReaderFieldnames(all_rows)
             m == _map_headers(fns)
             produtos == _rows_to_produtos(DictReaderRows(all_rows), m)
         IN  IF fns = <<>> THEN ParseCsvTextFrom(csv_text, d + 1)
             ELSE IF AllExpectedMapped(m) /\ produtos # <<>> THEN produtos
             ELSE ParseCsvTextFrom(csv_text, d + 1)

parse_csv_text(csv_text) == ParseCsvTextFrom(csv_text, 1)

\* The row dicts ler_produtos_via_api builds: a short row is padded with ''.
ApiRow(fns, vals) ==
    [k \in {fns[i] : i \in 1..Len(fns)} |->
        LET i == LastColumn(fns, k, Len(fns)) IN IF i <= Len(vals) THEN vals[i] ELSE <<>>]

\* ler_produtos_via_api on the values the worksheet returned.
ApiProdutos(values) ==
    IF values = <<>> THEN <<>>
    ELSE LET fns == values[1]
             data == Tail(values)
             rows == [i \in 1..Len(data) |-> ApiRow(fns, data[i])]
             m == _map_headers(fns)
         IN  IF ~AllExpectedMapped(m) THEN <<>> ELSE _rows_to_produtos(rows, m)

(***************************************************************************)
(* Decoding with errors='replace', and the local-file tier's probe         *)
(***************************************************************************)
encodings == <<"utf-8-sig", "utf-8", "latin-1", "iso-8859-1", "cp1252", "windows-1252">>

IsContinuation(b) == b \in 128..191

\* How many continuation bytes the lead byte c calls for (0: c leads nothing).
Utf8Need(c) ==
    IF c \in 194..223 THEN 1
    ELSE IF c \in 224..239 THEN 2
    ELSE IF c \in 240..244 THEN 3
    ELSE 0

\* The byte after lead byte c: no overlong form, no surrogate, no code point
\* beyond U+10FFFF.
Utf8SecondOk(c, b) ==
    CASE c = 224 -> b \in 160..191
      [] c = 237 -> b \in 128..159
      [] c = 240 -> b \in 144..191
      [] c = 244 -> b \in 128..143
      [] OTHER -> IsContinuation(b)

Utf8Good(bytes, i, j) ==
    /\ i + j <= Len(bytes)
    /\ IF j = 1 THEN Utf8SecondOk(bytes[i], bytes[i + 1]) ELSE IsContinuation(bytes[i + j])

\* The bytes after position i that validly continue the lead byte at i.
Utf8Run(bytes, i) ==
    CHOOSE k \in 0..Utf8Need(bytes[i]) :
        /\ \A j \in 1..k : Utf8Good(bytes, i, j)
        /\ k = Utf8Need(bytes[i]) \/ ~Utf8Good(bytes, i, k + 1)

Utf8CodePoint(bytes, i) ==
    CASE Utf8Need(bytes[i]) = 1 -> (bytes[i] - 192) * 64 + (bytes[i + 1] - 128)
      [] Utf8Need(bytes[i]) = 2 ->
            (bytes[i] - 224) * 4096 + (bytes[i + 1] - 128) * 64 + (bytes[i + 2] - 128)
      [] OTHER ->
            (bytes[i] - 240) * 262144 + (bytes[i + 1] - 128) * 4096
            + (bytes[i + 2] - 128) * 64 + (bytes[i + 3] - 128)

\* The nearest position before i that holds no continuation byte, 0 when
\* there is none.
LeadBefore(bytes, i) ==
    CHOOSE p \in 0..(i - 1) :
        /\ p = 0 \/ ~IsContinuation(bytes[p])
        /\ \A q \in (p + 1)..(i - 1) : IsContinuation(bytes[q])

\* Position i starts a unit of the decoder's output: it is not one of the
\* continuation bytes the lead byte before it takes up.
Utf8Starts(bytes, i) ==
    \/ ~IsContinuation(bytes[i])
    \/ LET p == LeadBefore(bytes, i) IN
       ~(p >= 1 /\ Utf8Need(bytes[p]) > 0 /\ Utf8Run(bytes, p) >= i - p)

\* The character of the unit that starts at i.
Utf8Unit(bytes, i) ==
    IF bytes[i] < 128 THEN bytes[i]
    ELSE IF Utf8Need(bytes[i]) = 0 THEN REPLACEMENT
    ELSE IF Utf8Run(bytes, i) = Utf8Need(bytes[i]) THEN Utf8CodePoint(bytes, i)
    ELSE REPLACEMENT

\* bytes.decode('utf-8', errors='replace'): an ill-formed sequence gives one
\* U+FFFD for its longest valid start.
Utf8Decode(bytes) ==
    LET starts == SelectSeq(Indices(Len(bytes)), LAMBDA i : Utf8Starts(bytes, i)) IN
    [k \in 1..Len(starts) |-> Utf8Unit(bytes, starts[k])]

Utf8Signature == <<239, 187, 191>>

\* 'utf-8-sig': a leading signature is dropped.
Utf8SigDecode(bytes) ==
    IF Len(bytes) >= 3 /\ SubSeq(bytes, 1, 3) = Utf8Signature
    THEN Utf8Decode(SubSeq(bytes, 4, Len(bytes)))
    ELSE Utf8Decode(bytes)

\* 'latin-1': byte b is code point b.
Latin1Decode(bytes) == bytes

\* 'cp1252' differs from 'latin-1' on 0x80..0x9F; five of those bytes are
\* undefined and decode to U+FFFD.
Cp1252High ==
    <<8364, 65533, 8218, 402, 8222, 8230, 8224, 8225,
      710, 8240, 352, 8249, 338, 65533, 381, 65533,
      65533, 8216, 8217, 8220, 8221, 8226, 8211, 8212,
      732, 8482, 353, 8250, 339, 65533, 382, 376>>

Cp1252Decode(bytes) ==
    [i \in 1..Len(bytes) |->
        IF bytes[i] \in 128..159 THEN Cp1252High[bytes[i] - 127] ELSE bytes[i]]

\* open(csv_path, 'r', encoding=enc, errors='replace', newline='').read()
Decode(bytes, enc) ==
    CASE enc = "utf-8-sig" -> Utf8SigDecode(bytes)
      [] enc = "utf-8" -> Utf8Decode(bytes)
      [] enc \in {"latin-1", "iso-8859-1"} -> Latin1Decode(bytes)
      [] enc \in {"cp1252", "windows-1252"} -> Cp1252Decode(bytes)

\* The probe of the local file from the pairing (encodings[e], delimiters[d])
\* on: the products of the first pairing whose header row gives the five
\* columns and whose rows give a product, [] when there is none.
RECURSIVE LocalProbeFrom(_, _, _)
LocalProbeFrom(bytes, e, d) ==
    IF e > Len(encodings) THEN <<>>
    ELSE IF d > Len(delimiters) THEN LocalProbeFrom(bytes, e + 1, 1)
    ELSE LET all_rows == CsvReader(Decode(bytes, encodings[e]), delimiters[d])
             m == LocalMapping(ReaderFieldnames(all_rows))
         IN  IF AllExpectedMapped(m) /\ ProdutosLidos(DictReaderRows(all_rows), m) # <<>>
             THEN ProdutosLidos(DictReaderRows(all_rows), m)
             ELSE LocalProbeFrom(bytes, e, d + 1)

LocalProbe(bytes) == LocalProbeFrom(bytes, 1, 1)

(***************************************************************************)
(* Specification of the header canonicalizer: a header row is put          *)
(* together cell by cell, then canonicalized by either implementation.     *)
(***************************************************************************)
MaxCols == 6

HeaderPool ==
    { COD_PRODUTO,
      Str(<<"S", "K", "U">>),
      Str(<<" ", "c", "o", "d", "p", "r", "o", "d", "u", "t", "o">>),
      Str(<<"N", "o", "m", "e">>),
      Str(<<"E", "A", "N">>),
      Str(<<"I", "M", "A", "G", "E", "M">>),
      <<BOM>> \o Str(<<"p", "r", "o", "d", "u", "c", "t", " ", "u", "r", "l">>),
      Str(<<"X", "1">>) }

HeaderInit ==
    /\ fieldnames = <<>>
    /\ mapping = EmptyDict
    /\ hdr_tier = "none"
    /\ hdr_pc = "start"

\* The source's header row gets one more column.
AddHeader ==
    /\ hdr_pc = "start"
    /\ Len(fieldnames) < MaxCols
    /\ \E h \in HeaderPool :
          /\ ~InSeq(fieldnames, h)
          /\ fieldnames' = Append(fieldnames, h)
    /\ UNCHANGED <<mapping, hdr_tier, hdr_pc>>
    /\ UNCHANGED headerOthers

MapHeadersSheets ==
    /\ hdr_pc = "start"
    /\ mapping' = _map_headers(fieldnames)
    /\ hdr_tier' = "sheets"
    /\ hdr_pc' = "done"
    /\ UNCHANGED fieldnames
    /\ UNCHANGED headerOthers

MapHeadersLocal ==
    /\ hdr_pc = "start"
    /\ mapping' = LocalMapping(fieldnames)
    /\ hdr_tier' = "local"
    /\ hdr_pc' = "done"
    /\ UNCHANGED fieldnames
    /\ UNCHANGED headerOthers

HeaderNext == AddHeader \/ MapHeadersSheets \/ MapHeadersLocal

HeaderIdle ==
    /\ fieldnames = <<>>
    /\ mapping = EmptyDict
    /\ hdr_tier = "none"
    /\ hdr_pc = "idle"

\* Header h resolves canonical column c directly.
Direct(h, c) == _norm(h) = _norm(c)

\* Header h resolves canonical column c through the alias table.
ViaAlias(h, c) == _norm(h) \in DOMAIN aliases /\ aliases[_norm(h)] = c

ColumnResolves(fns, c) == \E i \in 1..Len(fns) : Direct(fns[i], c) \/ ViaAlias(fns[i], c)

FirstAlias(fns, c) ==
    fns[CHOOSE i \in 1..Len(fns) :
            /\ ViaAlias(fns[i], c)
            /\ \A j \in 1..(i - 1) : ~ViaAlias(fns[j], c)]

\* C6: once a header row is canonicalized (by either implementation), it is
\* usable exactly when each of the five canonical columns resolves to a real
\* header, directly or through an alias; and a canonical column that no
\* header matches directly but several alias is bound to the first of them
\* in column order.
C6_HeaderCanonicalization ==
    hdr_pc = "done" =>
        /\ AllExpectedMapped(mapping)
              <=> \A i \in 1..Len(expected) : ColumnResolves(fieldnames, expected[i])
        /\ \A i \in 1..Len(expected) :
              LET c == expected[i] IN
              (/\ \E k \in 1..Len(fieldnames) : ViaAlias(fieldnames[k], c)
               /\ \A k \in 1..Len(fieldnames) : ~Direct(fieldnames[k], c))
              => (c \in DOMAIN mapping /\ mapping[c] = FirstAlias(fieldnames, c))

\* A usable six-column header row in which two headers alias COD_PRODUTO,
\* none matches it directly, and the lower-case alias comes first and wins.
C6_Witness ==
    /\ hdr_pc = "done"
    /\ hdr_tier = "sheets"
    /\ AllExpectedMapped(mapping)
    /\ \E a, b \in 1..Len(fieldnames) :
          /\ a < b
          /\ fieldnames[a] = Str(<<" ", "c", "o", "d", "p", "r", "o", "d", "u", "t", "o">>)
          /\ fieldnames[b] = Str(<<"S", "K", "U">>)
    /\ mapping[COD_PRODUTO] = Str(<<" ", "c", "o", "d", "p", "r", "o", "d", "u", "t", "o">>)

(***************************************************************************)
(* Specification of row filtering: a table is put together row by row,     *)
(* written out, and read back by one of the three tiers.                   *)
(***************************************************************************)
MaxRows == 2

CanonicalHeader == expected

UrlFirstHeader ==
    <<Str(<<"U", "R", "L">>), Str(<<"S", "K", "U">>), Str(<<"N", "O", "M", "E">>),
      Str(<<"E", "A", "N">>), Str(<<"I", "M", "A", "G", "E", "M">>)>>

\* The column of canonical field c in a header row that names each once.
ColumnOf(header, c) ==
    CHOOSE i \in 1..Len(header) : Direct(header[i], c) \/ ViaAlias(header[i], c)

UrlPool ==
    { <<>>, SENTINEL_ZERO, SENTINEL_DASH, Str(<<" ", "0", " ">>),
      Str(<<"u">>), Str(<<" ", "v">>) }

FillPool == { <<>>, Str(<<"x">>) }

\* A full row: the url cell in its column, the fill in the others.
FullRow(header, url, fill) ==
    [i \in 1..Len(header) |-> IF i = ColumnOf(header, PRODUCTURL) THEN url ELSE fill]

\* The rows a source may hold: full rows, rows that lack their last cell,
\* rows with one cell too many, and the row with no cell at all.
RowPool(header) ==
    LET full == {FullRow(header, u, f) : u \in UrlPool, f \in FillPool} IN
    full
    \cup {SubSeq(r, 1, Len(r) - 1) : r \in full}
    \cup {Append(FullRow(header, u, Str(<<"x">>)), Str(<<"x">>)) : u \in UrlPool}
    \cup {<<>>}

RECURSIVE JoinWith(_, _)
JoinWith(pieces, sep) ==
    IF pieces = <<>> THEN <<>>
    ELSE IF Len(pieces) = 1 THEN pieces[1]
    ELSE pieces[1] \o <<sep>> \o JoinWith(Tail(pieces), sep)

\* seqs[lo] \o ... \o seqs[hi]
RECURSIVE ConcatRange(_, _, _)
ConcatRange(seqs, lo, hi) ==
    IF lo > hi THEN <<>>
    ELSE IF lo = hi THEN seqs[lo]
    ELSE ConcatRange(seqs, lo, (lo + hi) \div 2) \o ConcatRange(seqs, (lo + hi) \div 2 + 1, hi)

Concat(seqs) == ConcatRange(seqs, 1, Len(seqs))

\* The table as delimited text, one line per row, each line ended.
TableText(header, rows, delim) ==
    Concat([i \in 1..(Len(rows) + 1) |->
               JoinWith(IF i = 1 THEN header ELSE rows[i - 1], delim) \o <<NEWLINE>>])

RowsInit ==
    /\ tbl_header \in {CanonicalHeader, UrlFirstHeader}
    /\ tbl_rows = <<>>
    /\ rows_tier = "none"
    /\ rows_out = <<>>
    /\ rows_pc = "build"

\* The source gets one more data row.
AddRow ==
    /\ rows_pc = "build"
    /\ Len(tbl_rows) < MaxRows
    /\ \E r \in RowPool(tbl_header) : tbl_rows' = Append(tbl_rows, r)
    /\ UNCHANGED <<tbl_header, rows_tier, rows_out, rows_pc>>
    /\ UNCHANGED rowsOthers

\* The local-file tier reads the table from a UTF-8 file.
ReadRowsFile ==
    /\ rows_pc = "build"
    /\ \E d \in 1..Len(delimiters) :
          rows_out' = LocalProbe(TableText(tbl_header, tbl_rows, delimiters[d]))
    /\ rows_tier' = "file"
    /\ rows_pc' = "done"
    /\ UNCHANGED <<tbl_header, tbl_rows>>
    /\ UNCHANGED rowsOthers

\* The remote export tier reads the table from the response text.
ReadRowsText ==
    /\ rows_pc = "build"
    /\ \E d \in 1..Len(delimiters) :
          rows_out' = parse_csv_text(TableText(tbl_header, tbl_rows, delimiters[d]))
    /\ rows_tier' = "text"
    /\ rows_pc' = "done"
    /\ UNCHANGED <<tbl_header, tbl_rows>>
    /\ UNCHANGED rowsOthers

\* The spreadsheet API tier reads the table as the worksheet's values.
ReadRowsApi ==
    /\ rows_pc = "build"
    /\ rows_out' = ApiProdutos(<<tbl_header>> \o tbl_rows)
    /\ rows_tier' = "api"
    /\ rows_pc' = "done"
    /\ UNCHANGED <<tbl_header, tbl_rows>>
    /\ UNCHANGED rowsOthers

RowsNext == AddRow \/ ReadRowsFile \/ ReadRowsText \/ ReadRowsApi

RowsIdle ==
    /\ tbl_header = <<>>
    /\ tbl_rows = <<>>
    /\ rows_tier = "none"
    /\ rows_out = <<>>
    /\ rows_pc = "idle"

\* The trimmed cell of canonical field c in a data row, '' when the row has
\* no such cell.
TrimmedCell(header, row, c) ==
    IF ColumnOf(header, c) <= Len(row) THEN strip(row[ColumnOf(header, c)]) ELSE <<>>

ValidUrl(url) == url # <<>> /\ url # SENTINEL_ZERO /\ url # SENTINEL_DASH

RECURSIVE ExactCatalogFrom(_, _, _)
ExactCatalogFrom(header, rows, i) ==
    IF i > Len(rows) THEN <<>>
    ELSE (IF ValidUrl(TrimmedCell(header, rows[i], PRODUCTURL))
          THEN <<[sku |-> TrimmedCell(header, rows[i], COD_PRODUTO),
                  nome |-> TrimmedCell(header, rows[i], NOMEPRODUTOECOMM),
                  ean |-> TrimmedCell(header, rows[i], COD_BARRAS),
                  imagem |-> TrimmedCell(header, rows[i], URLECOMMERCEIMG),
                  url |-> TrimmedCell(header, rows[i], PRODUCTURL)]>>
          ELSE <<>>)
         \o ExactCatalogFrom(header, rows, i + 1)

\* C4: whichever tier read the table, the loaded catalog is exactly the data
\* rows whose trimmed PRODUCTURL is non-empty and neither "0" nor "-", in row
\* order, each with its trimmed cells (an empty cell as ''); so no loaded
\* record has an empty or sentinel url.
C4_RowFilteringExact ==
    rows_pc = "done" =>
        /\ rows_out = ExactCatalogFrom(tbl_header, tbl_rows, 1)
        /\ \A i \in 1..Len(rows_out) : ValidUrl(rows_out[i].url)

(***************************************************************************)
(* Specification of the encoding/delimiter probe: a table is put together, *)
(* written in a supported encoding with a supported delimiter, and loaded; *)
(* so is the same table written as UTF-8 with ';'.                         *)
(***************************************************************************)
MaxProbeRows == 2

\* 'a', 'é', 'çé'
NamePool == { Str(<<"a">>), <<233>>, <<231, 233>> }

ProbeRow(header, nome) ==
    [i \in 1..Len(header) |->
        IF i = ColumnOf(header, PRODUCTURL) THEN Str(<<"u">>)
        ELSE IF i = ColumnOf(header, NOMEPRODUTOECOMM) THEN nome
        ELSE IF i = ColumnOf(header, COD_PRODUTO) THEN Str(<<"7">>)
        ELSE <<>>]

Utf8EncodeChar(c) ==
    IF c < 128 THEN <<c>>
    ELSE IF c < 2048 THEN <<192 + (c \div 64), 128 + (c % 64)>>
    ELSE <<224 + (c \div 4096), 128 + ((c \div 64) % 64), 128 + (c % 64)>>

\* text.encode(enc), for text whose characters every supported encoding has
\* (code points below 128 or in 160..255).
Encode(text, enc) ==
    CASE enc = "utf-8" -> Concat([i \in 1..Len(text) |-> Utf8EncodeChar(text[i])])
      [] enc = "utf-8-sig" ->
            Utf8Signature \o Concat([i \in 1..Len(text) |-> Utf8EncodeChar(text[i])])
      [] OTHER -> text

ProbeInit ==
    /\ probe_header \in {CanonicalHeader, UrlFirstHeader}
    /\ probe_rows = <<>>
    /\ probe_enc = "none"
    /\ probe_delim = 0
    /\ probe_out = <<>>
    /\ probe_base = <<>>
    /\ probe_pc = "build"

AddProbeRow ==
    /\ probe_pc = "build"
    /\ Len(probe_rows) < MaxProbeRows
    /\ \E n \in NamePool : probe_rows' = Append(probe_rows, ProbeRow(probe_header, n))
    /\ UNCHANGED <<probe_header, probe_enc, probe_delim, probe_out, probe_base, probe_pc>>
    /\ UNCHANGED probeOthers

\* The local-file tier loads the table from a file.
ProbeFile ==
    /\ probe_pc = "build"
    /\ \E e \in 1..Len(encodings), d \in 1..Len(delimiters) :
          /\ probe_enc' = encodings[e]
          /\ probe_delim' = delimiters[d]
          /\ probe_out' =
                LocalProbe(Encode(TableText(probe_header, probe_rows, delimiters[d]),
                                  encodings[e]))
    /\ probe_base' =
          LocalProbe(Encode(TableText(probe_header, probe_rows, SEMICOLON), "utf-8"))
    /\ probe_pc' = "done"
    /\ UNCHANGED <<probe_header, probe_rows>>
    /\ UNCHANGED probeOthers

\* The remote export tier loads the table from the response text.
ProbeText ==
    /\ probe_pc = "build"
    /\ \E d \in 1..Len(delimiters) :
          /\ probe_delim' = delimiters[d]
          /\ probe_out' = parse_csv_text(TableText(probe_header, probe_rows, delimiters[d]))
    /\ probe_enc' = "str"
    /\ probe_base' = parse_csv_text(TableText(probe_header, probe_rows, SEMICOLON))
    /\ probe_pc' = "done"
    /\ UNCHANGED <<probe_header, probe_rows>>
    /\ UNCHANGED probeOthers

ProbeNext == AddProbeRow \/ ProbeFile \/ ProbeText

ProbeIdle ==
    /\ probe_header = <<>>
    /\ probe_rows = <<>>
    /\ probe_enc = "none"
    /\ probe_delim = 0
    /\ probe_out = <<>>
    /\ probe_base = <<>>
    /\ probe_pc = "idle"

\* C5: a table written in any supported encoding with any supported
\* delimiter loads to the same records, in the same order, as the same table
\* written as UTF-8 with ';' - also when its cells hold characters whose
\* bytes differ between the encodings.
C5_EncodingDelimiterInvariance ==
    probe_pc = "done" => probe_out = probe_base

(***************************************************************************)
(* Catalog loader (app.py, carregar_produtos_planilha)                     *)
(***************************************************************************)
\* None for the cache and its timestamp, and a value they hold.
Unset == <<>>

Holding(x) == <<x>>

\* os.getenv(name)
getenv(name) == environ[name]

\* x or '', and os.getenv(name, '')
OrEmpty(x) == IF x = NoneVal THEN <<>> ELSE x

SHEETS_CSV == Str(<<"s", "h", "e", "e", "t", "s", "_", "c", "s", "v">>)

SHEETS_API == Str(<<"s", "h", "e", "e", "t", "s", "_", "a", "p", "i">>)

\* (os.getenv('DATA_SOURCE') or '').strip().lower()
data_source == lower(strip(OrEmpty(getenv("DATA_SOURCE"))))

\* The header row of the remote spreadsheet.
SheetHeader == <<Str(<<"U", "R", "L">>), Str(<<"S", "K", "U">>), Str(<<"N", "O", "M", "E">>), Str(<<"E", "A", "N">>), Str(<<"I", "M", "A", "G", "E", "M">>)>>

\* ler_produtos_via_sheets_csv: the request raises when the sheet is
\* unreachable, else the export text is parsed.
ler_produtos_via_sheets_csv ==
    IF sheet = Unset THEN [raised |-> TRUE, produtos |-> <<>>]
    ELSE [raised |-> FALSE,
          produtos |-> parse_csv_text(TableText(SheetHeader, sheet[1], COMMA))]

\* ler_produtos_via_api: opening the sheet raises when it is unreachable,
\* else its values (header row first) are turned into products.
ler_produtos_via_api ==
    IF sheet = Unset THEN [raised |-> TRUE, produtos |-> <<>>]
    ELSE [raised |-> FALSE, produtos |-> ApiProdutos(<<SheetHeader>> \o sheet[1])]

\* A tier that was not called, and one that was, with what it gave.
Skipped == [reads |-> <<>>, raised |-> FALSE, produtos |-> <<>>]

Tried(tier, r) == [reads |-> <<tier>>, raised |-> r.raised, produtos |-> r.produtos]

\* if data_source == 'sheets_csv' and ler_produtos_via_sheets_csv: ...
TrySheetsCsv ==
    IF data_source = SHEETS_CSV /\ sheets_module
          /\ strip(OrEmpty(getenv("SHEETS_CSV_URL"))) # <<>>
    THEN Tried("sheets_csv", ler_produtos_via_sheets_csv)
    ELSE Skipped

\* if data_source == 'sheets_api' and ler_produtos_via_api: ...
TrySheetsApi ==
    IF data_source = SHEETS_API /\ sheets_module
          /\ strip(OrEmpty(getenv("SHEETS_ID"))) # <<>>
          /\ strip(OrEmpty(getenv("SHEETS_CREDENTIALS_FILE"))) # <<>>
    THEN Tried("sheets_api", ler_produtos_via_api)
    ELSE Skipped

\* The body of the try block: the two remote tiers one after the other; a
\* tier that raises or loads products ends the block.
InTurn(csv, api) ==
    IF csv.raised \/ csv.produtos # <<>> THEN csv
    ELSE [reads |-> csv.reads \o api.reads, raised |-> api.raised,
          produtos |-> api.produtos]

RemoteTiers == InTurn(TrySheetsCsv, TrySheetsApi)

\* A try block whose exception reaches the caller.
Uncaught(r) == r

\* except Exception: the error is printed and the load goes on.
Caught(r) == IF r.raised THEN [r EXCEPT !.raised = FALSE, !.produtos = <<>>] ELSE r

PRODUTOS_CSV_NAME == Str(<<"p", "r", "o", "d", "u", "t", "o", "s", ".", "c", "s", "v">>)

PRODUTOS2_CSV_NAME == Str(<<"p", "r", "o", "d", "u", "t", "o", "s", "2", ".", "c", "s", "v">>)

\* csv_candidates: the explicit file name, the PRODUTOS_CSV override, the defaults.
csv_candidates(csv_filename) ==
    (IF csv_filename \notin {NoneVal, <<>>} THEN <<csv_filename>> ELSE <<>>)
    \o (IF getenv("PRODUTOS_CSV") \notin {NoneVal, <<>>}
        THEN <<getenv("PRODUTOS_CSV")>> ELSE <<>>)
    \o <<PRODUTOS_CSV_NAME, PRODUTOS2_CSV_NAME>>

\* csv_path: the first candidate that exists, None when none does.
csv_path(candidates) ==
    IF \E i \in 1..Len(candidates) : candidates[i] \in disk
    THEN candidates[CHOOSE i \in 1..Len(candidates) :
                        /\ candidates[i] \in disk
                        /\ \A j \in 1..(i - 1) : candidates[j] \notin disk]
    ELSE NoneVal

\* The bytes of the files: produtos.csv is an ASCII table with ';',
\* produtos2.csv has no usable header row.
ProdutosCsvBytes ==
    Str(<<"S", "K", "U", ";", "N", "O", "M", "E", ";", "E", "A", "N", ";", "I", "M", "A", "G", "E", "M", ";", "U", "R", "L">>) \o <<NEWLINE>> \o Str(<<"7", ";", "p", ";", ";", ";", "f">>) \o <<NEWLINE>>

UnusableBytes == Str(<<"x">>)

FileBytes(name) == IF name = PRODUTOS_CSV_NAME THEN ProdutosCsvBytes ELSE UnusableBytes

\* A cache test that never finds the cache.
CacheMiss(force_reload) == FALSE

\* not force_reload and _produtos_cache is not None
CacheHit(force_reload) == ~force_reload /\ _produtos_cache # Unset

\* return _produtos_cache
Cached ==
    [ret |-> _produtos_cache[1], cache |-> _produtos_cache,
     timestamp |-> _cache_timestamp, reads |-> <<>>, outcome |-> "cached"]

\* A successful load that returns the products and writes nothing.
ReturnedOnly(produtos, reads) ==
    [ret |-> produtos, cache |-> _produtos_cache, timestamp |-> _cache_timestamp,
     reads |-> reads, outcome |-> reads[Len(reads)]]

\* _produtos_cache = produtos; _cache_timestamp = time.time(); return produtos
Stored(produtos, reads) ==
    [ret |-> produtos, cache |-> Holding(produtos), timestamp |-> Holding(clock),
     reads |-> reads, outcome |-> reads[Len(reads)]]

\* A failed load that forgets the cache.
NotLoadedCacheCleared(reads) ==
    [ret |-> <<>>, cache |-> Unset, timestamp |-> Unset,
     reads |-> reads, outcome |-> "failed"]

\* return produtos, with produtos still []: no tier loaded a product.
NotLoaded(reads) ==
    [ret |-> <<>>, cache |-> _produtos_cache, timestamp |-> _cache_timestamp,
     reads |-> reads, outcome |-> "failed"]

\* An exception that leaves carregar_produtos_planilha.
Raised(reads) ==
    [ret |-> <<>>, cache |-> _produtos_cache, timestamp |-> _cache_timestamp,
     reads |-> reads, outcome |-> "raised"]

\* A probe whose list is cached and returned also when it is empty.
ProbedStoresEmpty(produtos, reads) == Stored(produtos, reads)

\* The local-file tier: the first existing candidate is probed.
\* if produtos_lidos: (cache and return) else: continue, to the final return
Probed(produtos, reads) ==
    IF produtos # <<>> THEN Stored(produtos, reads) ELSE NotLoaded(reads)

LocalFile(path, reads) ==
    IF path = NoneVal THEN NotLoaded(reads) ELSE Probed(LocalProbe(FileBytes(path)), reads)

LocalTier(csv_filename, reads) ==
    LocalFile(csv_path(csv_candidates(csv_filename)), reads \o <<"local">>)

\* carregar_produtos_planilha(force_reload, csv_filename): what it returns,
\* the cache and the timestamp it leaves, the tiers it read.
AfterRemote(force_reload, csv_filename, r) ==
    IF r.raised THEN Raised(r.reads)
    ELSE IF r.produtos # <<>> THEN Stored(r.produtos, r.reads)
    ELSE IF CacheHit(force_reload) THEN Cached
    ELSE LocalTier(csv_filename, r.reads)

carregar_produtos_planilha(force_reload, csv_filename) ==
    IF CacheHit(force_reload) THEN Cached
    ELSE AfterRemote(force_reload, csv_filename, Caught(RemoteTiers))

\* A test that compares the name like the other fields.
ProdutoMatchesExactly(produto, termo) ==
    \/ lower(produto.sku) = termo
    \/ lower(produto.ean) = termo
    \/ lower(produto.url) = termo
    \/ lower(produto.nome) = termo

\* buscar_produto's test of one product against the stripped, lowered term.
ProdutoMatches(produto, termo) ==
    \/ lower(produto.sku) = termo
    \/ lower(produto.ean) = termo
    \/ lower(produto.url) = termo
    \/ Contains(termo, lower(produto.nome))

\* for produto in produtos: ... return produto; return None
RECURSIVE BuscarFrom(_, _, _)
BuscarFrom(produtos, termo, i) ==
    IF i > Len(produtos) THEN Unset
    ELSE IF ProdutoMatches(produtos[i], termo) THEN Holding(produtos[i])
    ELSE BuscarFrom(produtos, termo, i + 1)

\* buscar_produto(termo_busca) on the list the load returned.
buscar_produto(produtos, termo) == BuscarFrom(produtos, lower(strip(termo)), 1)

(***************************************************************************)
(* Specification of the loader: the process starts with some environment   *)
(* and an empty cache; loads are called while the spreadsheet, the files   *)
(* and the clock change.                                                   *)
(***************************************************************************)
MaxClock == 1

\* The settings the selected data source reads, and those left blank.
Needed(e) ==
    LET ds == lower(strip(OrEmpty(e.DATA_SOURCE)))
    IN  IF ds = SHEETS_CSV THEN {"SHEETS_CSV_URL"}
        ELSE IF ds = SHEETS_API THEN {"SHEETS_ID", "SHEETS_CREDENTIALS_FILE"}
        ELSE {}

Blank(e) ==
    {k \in {"SHEETS_CSV_URL", "SHEETS_ID", "SHEETS_CREDENTIALS_FILE"} :
        strip(OrEmpty(e[k])) = <<>>}

\* The environments the process may start in: at most one setting is left
\* blank, and only one the selected data source reads.
EnvPool ==
    {e \in [DATA_SOURCE : {NoneVal, Str(<<" ", "S", "h", "e", "e", "t", "s", "_", "C", "S", "V">>), Str(<<"S", "H", "E", "E", "T", "S", "_", "A", "P", "I", " ">>)},
            SHEETS_CSV_URL : {Str(<<" ">>), Str(<<"u">>)},
            SHEETS_ID : {NoneVal, Str(<<"k">>)},
            SHEETS_CREDENTIALS_FILE : {<<>>, Str(<<"c">>)},
            PRODUTOS_CSV : {NoneVal, PRODUTOS2_CSV_NAME}] :
        Blank(e) \subseteq Needed(e) /\ Cardinality(Blank(e)) <= 1}

\* Spreadsheet rows (url, sku, nome, ean, imagem): one valid, one with the
\* url sentinel '0'.
SheetRow == <<Str(<<"r">>), Str(<<"1">>), Str(<<"n">>), Str(<<"e">>), Str(<<"i">>)>>

SheetRowNoUrl == <<Str(<<"0">>), Str(<<"2">>), Str(<<"m">>), <<>>, <<>>>>

SheetStates == {Unset, Holding(<<SheetRow>>), Holding(<<SheetRowNoUrl>>)}

FileNames == {PRODUTOS_CSV_NAME, PRODUTOS2_CSV_NAME}

NoCall ==
    [force_reload |-> FALSE, csv_filename |-> NoneVal,
     cache_before |-> Unset, timestamp_before |-> Unset]

\* Nothing is known of a call made before the environment changed.
Forget ==
    /\ last_call' = NoCall
    /\ last_ret' = <<>>
    /\ last_reads' = <<>>
    /\ last_outcome' = "none"
    /\ first_load' = Unset
    /\ termo_busca' = Unset
    /\ produto_achado' = Unset

LoadIdle ==
    /\ _produtos_cache = Unset
    /\ _cache_timestamp = Unset
    /\ clock = 0
    /\ last_call = NoCall
    /\ last_ret = <<>>
    /\ last_reads = <<>>
    /\ last_outcome = "none"
    /\ first_load = Unset
    /\ termo_busca = Unset
    /\ produto_achado = Unset

LoadInit ==
    /\ environ \in EnvPool
    /\ sheets_module \in BOOLEAN
    /\ sheet \in SheetStates
    /\ disk = {}
    /\ LoadIdle

\* What a load that gave r leaves behind.
Returned(r) ==
    /\ _produtos_cache' = r.cache
    /\ _cache_timestamp' = r.timestamp
    /\ last_ret' = r.ret
    /\ last_reads' = r.reads
    /\ last_outcome' = r.outcome

\* The call carregar_produtos_planilha(force_reload, csv_filename) and what
\* is seen of it.
Call(force_reload, csv_filename) ==
    /\ Returned(carregar_produtos_planilha(force_reload, csv_filename))
    /\ last_call' = [force_reload |-> force_reload, csv_filename |-> csv_filename,
                     cache_before |-> _produtos_cache,
                     timestamp_before |-> _cache_timestamp]
    /\ first_load' = IF /\ last_outcome # "none"
                       /\ ~last_call.force_reload
                       /\ ~force_reload
                       /\ last_call.csv_filename = csv_filename
                    THEN Holding([ret |-> last_ret, reads |-> last_reads])
                    ELSE Unset

Load ==
    /\ \E force_reload \in BOOLEAN, csv_filename \in {NoneVal, PRODUTOS2_CSV_NAME} :
            Call(force_reload, csv_filename)
    /\ UNCHANGED <<environ, sheets_module, sheet, disk, clock, termo_busca, produto_achado>>
    /\ UNCHANGED loadOthers

SheetChanges ==
    /\ \E s \in SheetStates \ {sheet} : sheet' = s
    /\ Forget
    /\ UNCHANGED <<environ, sheets_module, disk, clock, _produtos_cache, _cache_timestamp>>
    /\ UNCHANGED loadOthers

WriteFile ==
    /\ \E name \in FileNames \ disk : disk' = disk \cup {name}
    /\ Forget
    /\ UNCHANGED <<environ, sheets_module, sheet, clock, _produtos_cache, _cache_timestamp>>
    /\ UNCHANGED loadOthers

RemoveFile ==
    /\ \E name \in disk : disk' = disk \ {name}
    /\ Forget
    /\ UNCHANGED <<environ, sheets_module, sheet, clock, _produtos_cache, _cache_timestamp>>
    /\ UNCHANGED loadOthers

Tick ==
    /\ clock < MaxClock
    /\ clock' = clock + 1
    /\ Forget
    /\ UNCHANGED <<environ, sheets_module, sheet, disk, _produtos_cache, _cache_timestamp>>
    /\ UNCHANGED loadOthers

LoadNext == Load \/ SheetChanges \/ WriteFile \/ RemoveFile \/ Tick

\* The loader before the process starts, in the specifications of its parts.
LoadStill ==
    /\ environ = [k \in {"DATA_SOURCE"} |-> NoneVal]
    /\ sheets_module = FALSE
    /\ sheet = Unset
    /\ disk = {}
    /\ LoadIdle

(***************************************************************************)
(* Properties of the loader                                                *)
(***************************************************************************)
\* What a tier gives in the present environment for the last call: [] when
\* it is not selected or not configured, when it raises and when it finds
\* no valid record.
Yield(tier) ==
    CASE tier = "sheets_csv" -> Caught(TrySheetsCsv).produtos
      [] tier = "sheets_api" -> Caught(TrySheetsApi).produtos
      [] OTHER -> LocalTier(last_call.csv_filename, <<>>).ret

TierOrder == <<"sheets_csv", "sheets_api", "local">>

Rank(tier) == CHOOSE i \in 1..Len(TierOrder) : TierOrder[i] = tier

\* The tiers that give at least one product.
Winners == {i \in 1..Len(TierOrder) : Yield(TierOrder[i]) # <<>>}

FirstWinner == TierOrder[CHOOSE i \in Winners : \A j \in Winners : i <= j]

\* The last call went to the sources.
ReadSources == last_outcome \notin {"none", "cached"}

\* C1 (as amended): a load in which every source tier yields an empty
\* result, forced or not, leaves the cache and its timestamp as they were
\* and returns the empty list, also when the cache holds records.
C1_FailedLoadKeepsCache ==
    (ReadSources /\ Winners = {}) =>
        /\ _produtos_cache = last_call.cache_before
        /\ _cache_timestamp = last_call.timestamp_before
        /\ last_ret = <<>>

\* A forced load in which the remote tier and the local tier both gave
\* nothing, while the cache held records.
C1_Witness ==
    /\ ReadSources
    /\ Winners = {}
    /\ last_call.force_reload
    /\ last_call.cache_before # Unset
    /\ Len(last_reads) = 2

\* C1 (as stated): a load in which every source tier yields an empty result
\* leaves the cache unchanged and returns what the cache holds: the previous
\* records when there is a cache, the empty list only when there is none.
C1_FailedLoadReturnsCache ==
    (ReadSources /\ Winners = {}) =>
        /\ _produtos_cache = last_call.cache_before
        /\ last_ret = IF _produtos_cache = Unset THEN <<>> ELSE _produtos_cache[1]

\* C2: a load without force_reload that finds the cache populated returns
\* the cached list, reads no source and leaves the cache and its timestamp
\* unchanged.
C2_CachedReturn ==
    (last_outcome # "none" /\ ~last_call.force_reload /\ last_call.cache_before # Unset) =>
        /\ last_ret = last_call.cache_before[1]
        /\ last_reads = <<>>
        /\ _produtos_cache = last_call.cache_before
        /\ _cache_timestamp = last_call.timestamp_before

\* Such a load at a later time, when a source would give another list.
C2_Witness ==
    /\ last_outcome # "none"
    /\ ~last_call.force_reload
    /\ last_call.cache_before # Unset
    /\ clock > last_call.timestamp_before[1]
    /\ Winners # {}
    /\ Yield(FirstWinner) # last_call.cache_before[1]

\* C3 (as amended): a load without force_reload called twice returns the
\* same list both times; the second call reads no source when the first one
\* returned records (they are cached), and reads the sources again when
\* the first one returned nothing (nothing is cached then).
C3_RepeatedLoad ==
    first_load # Unset =>
        /\ last_ret = first_load[1].ret
        /\ (first_load[1].ret # <<>> => last_reads = <<>>)
        /\ (first_load[1].ret = <<>> => last_reads # <<>>)

\* The first call read the sources and loaded records, the second read none.
C3_Witness ==
    /\ first_load # Unset
    /\ first_load[1].reads # <<>>
    /\ first_load[1].ret # <<>>
    /\ last_reads = <<>>

\* C3 (as stated): from any starting state, a load without force_reload
\* called twice returns identical results and the second call reads no
\* source.
C3_SecondLoadReadsNothing ==
    first_load # Unset => (last_ret = first_load[1].ret /\ last_reads = <<>>)

\* C7: a load that goes to the sources reads them in the order remote
\* export, spreadsheet API, local file; it returns and caches what the first
\* tier with a non-empty list gives and reads no tier after it; a remote
\* tier that raises, is not configured or gives nothing is followed by the
\* local tier, and no exception leaves the load.
C7_SourcePrecedence ==
    ReadSources =>
        /\ last_outcome # "raised"
        /\ last_reads # <<>>
        /\ \A i, j \in 1..Len(last_reads) :
                i < j => Rank(last_reads[i]) < Rank(last_reads[j])
        /\ \A i \in 1..Len(RemoteTiers.reads) : last_reads[i] = RemoteTiers.reads[i]
        /\ IF Winners = {}
           THEN last_outcome = "failed" /\ last_reads[Len(last_reads)] = "local"
           ELSE /\ last_outcome = FirstWinner
                /\ last_reads[Len(last_reads)] = FirstWinner
                /\ last_ret = Yield(FirstWinner)
                /\ _produtos_cache = Holding(last_ret)

\* The remote export raised and the load went on to the local file, which
\* gave the products.
C7_Witness ==
    /\ last_outcome = "local"
    /\ last_reads = <<"sheets_csv", "local">>
    /\ sheet = Unset
    /\ last_ret # <<>>

(***************************************************************************)
(* Specification of the lookup: the spreadsheet gets its rows, and         *)
(* products are looked up by term through the loader.                      *)
(***************************************************************************)
MaxSheetRows == 3

LookupEnv ==
    [DATA_SOURCE |-> SHEETS_API, SHEETS_CSV_URL |-> <<>>, SHEETS_ID |-> Str(<<"k">>),
     SHEETS_CREDENTIALS_FILE |-> Str(<<"c">>), PRODUTOS_CSV |-> NoneVal]

\* Spreadsheet rows (url, sku, nome, ean, imagem).
LookupRows ==
    {<<Str(<<"U">>), Str(<<"A">>), Str(<<"B", "o", "l", "a">>), Str(<<"1">>), <<>>>>,
     <<Str(<<"v">>), Str(<<"b">>), Str(<<"a", "b">>), Str(<<"A">>), <<>>>>,
     <<Str(<<"a">>), Str(<<"c">>), Str(<<"L", "a", "b">>), Str(<<"2">>), <<>>>>,
     <<Str(<<"w">>), Str(<<"d">>), Str(<<"x">>), <<>>, <<>>>>}

TermPool == {Str(<<" ", "A">>), Str(<<"a", "b">>), <<>>, Str(<<"z">>), Str(<<"L", "A", " ">>), Str(<<"2">>)}

LookupInit ==
    /\ environ = LookupEnv
    /\ sheets_module = TRUE
    /\ sheet = Holding(<<>>)
    /\ disk = {}
    /\ LoadIdle

AddSheetRow ==
    /\ Len(sheet[1]) < MaxSheetRows
    /\ \E row \in LookupRows : sheet' = Holding(Append(sheet[1], row))
    /\ Forget
    /\ UNCHANGED <<environ, sheets_module, disk, clock, _produtos_cache, _cache_timestamp>>
    /\ UNCHANGED loadOthers

\* buscar_produto(termo): the catalog is loaded, then searched.
BuscarProduto ==
    /\ \E termo \in TermPool :
            /\ Call(FALSE, NoneVal)
            /\ termo_busca' = Holding(termo)
            /\ produto_achado' = buscar_produto(last_ret', termo)
    /\ UNCHANGED <<environ, sheets_module, sheet, disk, clock>>
    /\ UNCHANGED loadOthers

LookupNext == AddSheetRow \/ BuscarProduto

\* The trimmed, lower-cased term equals the record's sku, ean or url without
\* regard to case, or is part of its lower-cased name.
Hit(produto, t) ==
    \/ t \in {lower(produto.sku), lower(produto.ean), lower(produto.url)}
    \/ \E k \in 1..(Len(produto.nome) - Len(t) + 1) :
            \A j \in 1..Len(t) : lower(produto.nome)[k + j - 1] = t[j]

\* The positions, in load order, of the records the last term hits.
Hits == {i \in 1..Len(last_ret) : Hit(last_ret[i], lower(strip(termo_busca[1])))}

\* C8: a lookup returns the first record of the catalog, in load order, that
\* the term hits, and no record when it hits none; a record that comes
\* after another hit is never returned.
C8_LookupFirstHit ==
    termo_busca # Unset =>
        IF Hits = {} THEN produto_achado = Unset
        ELSE \E i \in Hits :
                /\ \A j \in Hits : i <= j
                /\ produto_achado = Holding(last_ret[i])

\* The term misses the first record and hits two different later ones.
C8_Witness ==
    /\ termo_busca # Unset
    /\ 1 \notin Hits
    /\ \E i, j \in Hits : i < j /\ last_ret[i] # last_ret[j]

(***************************************************************************)
(* Embedded-state extractor (app.py, _extract_apollo_state)                *)
(***************************************************************************)
MARKER == Str(<<"w", "i", "n", "d", "o", "w", ".", "A", "P", "O", "L", "L", "O", "_", "S", "T", "A", "T", "E">>)

LBRACE == Ord("{")

RBRACE == Ord("}")

LBRACKET == Ord("[")

RBRACKET == Ord("]")

QUOTE == Ord("\"")

BACKSLASH == Ord("\\")

COLON == Ord(":")

\* s.find(t, from): the first index from `from` on where t occurs in s, 0
\* (Python's -1) when there is none.  Indices count from 1.
Find(s, t, from) ==
    IF \E k \in from..Len(s) : OccursAt(t, s, k)
    THEN CHOOSE k \in from..Len(s) :
            OccursAt(t, s, k) /\ \A j \in from..(k - 1) : ~OccursAt(t, s, j)
    ELSE 0

\* The counter `braces` after the loop has read text[start..i].
Braces(text, start, i) ==
    Cardinality({k \in start..i : text[k] = LBRACE})
        - Cardinality({k \in start..i : text[k] = RBRACE})

LeastOf(S) == IF S = {} THEN 0 ELSE CHOOSE i \in S : \A j \in S : i <= j

\* The brace scan: the index of the '}' at which the counter is back to 0
\* for the first time, 0 when the text ends before that.  Every '{' and '}'
\* counts, wherever it stands.
ScanEnd(text, start) ==
    LeastOf({i \in start..Len(text) : text[i] = RBRACE /\ Braces(text, start, i) = 0})

\* s.replace(old, new), for an old that cannot overlap itself.
Replace(s, old, new) ==
    Concat([i \in 1..Len(s) |->
               IF OccursAt(old, s, i) THEN new
               ELSE IF \E k \in (i - Len(old) + 1)..(i - 1) : OccursAt(old, s, k) THEN <<>>
               ELSE <<s[i]>>])

NULL == Str(<<"n", "u", "l", "l">>)

\* json_str.replace(": undefined", ": null").replace(":undefined", ": null")
RewriteUndefined(json_str) ==
    Replace(Replace(json_str, Str(<<":", " ", "u", "n", "d", "e", "f", "i", "n", "e", "d">>), Str(<<":", " ", "n", "u", "l", "l">>)), Str(<<":", "u", "n", "d", "e", "f", "i", "n", "e", "d">>), Str(<<":", " ", "n", "u", "l", "l">>))

\* s.encode("utf-8", "ignore").decode("utf-8"): a surrogate code point has
\* no UTF-8 form and is dropped.
IsNotSurrogate(c) == c \notin 55296..57343

DropSurrogates(s) == SelectSeq(s, IsNotSurrogate)

(***************************************************************************)
(* json.loads, for texts without \u escapes.  A value is a node: its type, *)
(* its text (string, number, literal, key of a pair) and its parts         *)
(* (the pairs of an object, the elements of an array, the value of a pair).*)
(***************************************************************************)
Node(t, s, kids) == [t |-> t, s |-> s, kids |-> kids]

NoNode == Node("none", <<>>, <<>>)

Fail == [ok |-> FALSE, pos |-> 0, val |-> NoNode]

Ok(pos, val) == [ok |-> TRUE, pos |-> pos, val |-> val]

JsonWhitespace == {32, 9, 10, 13}

Digits == 48..57

At(text, i) == IF i \in 1..Len(text) THEN text[i] ELSE 0 - 1

\* The index of the first character from i on that is not whitespace.
SkipWs(text, i) ==
    CHOOSE j \in i..(Len(text) + 1) :
        /\ At(text, j) \notin JsonWhitespace
        /\ \A k \in i..(j - 1) : text[k] \in JsonWhitespace

\* The index of the first character from i on that is not a digit.
SkipDigits(text, i) ==
    CHOOSE j \in i..(Len(text) + 1) :
        /\ At(text, j) \notin Digits
        /\ \A k \in i..(j - 1) : text[k] \in Digits

\* How many backslashes stand right before index j, not going below `low`.
BackslashRun(text, low, j) ==
    CHOOSE n \in 0..(j - low) :
        /\ \A k \in 1..n : text[j - k] = BACKSLASH
        /\ (n = j - low \/ text[j - n - 1] # BACKSLASH)

\* The closing quote of the string that opens at i: the first quote after i
\* with an even number of backslashes before it; 0 when there is none.
ClosingQuote(text, i) ==
    LeastOf({j \in (i + 1)..Len(text) :
                text[j] = QUOTE /\ BackslashRun(text, i + 1, j) % 2 = 0})

Escapes ==
    (QUOTE :> QUOTE) @@ (BACKSLASH :> BACKSLASH) @@ (Ord("/") :> Ord("/"))
    @@ (Ord("b") :> 8) @@ (Ord("f") :> 12) @@ (Ord("n") :> 10) @@ (Ord("r") :> 13)
    @@ (Ord("t") :> 9)

\* body[k] is a backslash that starts an escape, or the character it escapes.
StartsEscape(body, k) == body[k] = BACKSLASH /\ BackslashRun(body, 1, k) % 2 = 0

IsEscaped(body, k) == k > 1 /\ StartsEscape(body, k - 1)

\* The body of a string is valid: no control character, every escape known.
ValidBody(body) ==
    \A k \in 1..Len(body) :
        /\ body[k] >= 32
        /\ IsEscaped(body, k) => body[k] \in DOMAIN Escapes

\* The value of a valid body: the escapes are replaced.
Unescape(body) ==
    Concat([k \in 1..Len(body) |->
               IF IsEscaped(body, k) THEN <<Escapes[body[k]]>>
               ELSE IF StartsEscape(body, k) THEN <<>>
               ELSE <<body[k]>>])

StringBody(text, i, close) ==
    IF close = 0 \/ ~ValidBody(SubSeq(text, i + 1, close - 1)) THEN Fail
    ELSE Ok(close + 1, Node("string", Unescape(SubSeq(text, i + 1, close - 1)), <<>>))

\* The string that opens with the quote at i.
ParseString(text, i) == StringBody(text, i, ClosingQuote(text, i))

Literals == <<Str(<<"n", "u", "l", "l">>), Str(<<"t", "r", "u", "e">>), Str(<<"f", "a", "l", "s", "e">>), Str(<<"N", "a", "N">>), Str(<<"I", "n", "f", "i", "n", "i", "t", "y">>), Str(<<"-", "I", "n", "f", "i", "n", "i", "t", "y">>)>>

LiteralAt(text, i) == LeastOf({n \in 1..Len(Literals) : OccursAt(Literals[n], text, i)})

ParseLiteral(text, i, n) == Ok(i + Len(Literals[n]), Node("literal", Literals[n], <<>>))

\* A number: the longest match of -?(0|[1-9]\d*)(\.\d+)?([eE][-+]?\d+)? at i.
ExponentEnd(text, e) ==
    IF At(text, e) \in {Ord("e"), Ord("E")}
    THEN IF At(text, e + 1) \in {Ord("+"), Ord("-")} /\ At(text, e + 2) \in Digits
         THEN SkipDigits(text, e + 2)
         ELSE IF At(text, e + 1) \in Digits THEN SkipDigits(text, e + 1)
         ELSE e
    ELSE e

FractionEnd(text, f) ==
    IF At(text, f) = Ord(".") /\ At(text, f + 1) \in Digits
    THEN SkipDigits(text, f + 1)
    ELSE f

IntegerEnd(text, s) == IF At(text, s) = Ord("0") THEN s + 1 ELSE SkipDigits(text, s)

NumberText(text, i, end) == Ok(end, Node("number", SubSeq(text, i, end - 1), <<>>))

NumberFrom(text, i, s) ==
    IF At(text, s) \notin Digits THEN Fail
    ELSE NumberText(text, i, ExponentEnd(text, FractionEnd(text, IntegerEnd(text, s))))

ParseNumber(text, i) ==
    NumberFrom(text, i, IF At(text, i) = Ord("-") THEN i + 1 ELSE i)

\* d[key] = value on the pairs of an object: a key that is there keeps its
\* place and takes the new value.
PutPair(pairs, key, value) ==
    IF \E n \in 1..Len(pairs) : pairs[n].s = key
    THEN [n \in 1..Len(pairs) |->
             IF pairs[n].s = key THEN Node("pair", key, <<value>>) ELSE pairs[n]]
    ELSE Append(pairs, Node("pair", key, <<value>>))

RECURSIVE ParseValue(_, _)
RECURSIVE ParseMembers(_, _, _)
RECURSIVE AfterKey(_, _, _)
RECURSIVE AfterColon(_, _, _, _)
RECURSIVE AfterMember(_, _, _, _)
RECURSIVE MemberEnd(_, _, _)
RECURSIVE ParseElements(_, _, _)
RECURSIVE AfterElement(_, _, _)
RECURSIVE ElementEnd(_, _, _)

\* After a pair or an element: '}' / ']' ends, ',' goes on, else an error.
MemberEnd(text, pairs, m) ==
    IF At(text, m) = RBRACE THEN Ok(m + 1, Node("object", <<>>, pairs))
    ELSE IF At(text, m) = COMMA THEN ParseMembers(text, SkipWs(text, m + 1), pairs)
    ELSE Fail

AfterMember(text, pairs, key, value) ==
    IF ~value.ok THEN Fail
    ELSE MemberEnd(text, PutPair(pairs, key.val.s, value.val), SkipWs(text, value.pos))

AfterColon(text, pairs, key, c) ==
    IF At(text, c) # COLON THEN Fail
    ELSE AfterMember(text, pairs, key, ParseValue(text, SkipWs(text, c + 1)))

AfterKey(text, pairs, key) ==
    IF ~key.ok THEN Fail ELSE AfterColon(text, pairs, key, SkipWs(text, key.pos))

\* The pairs of an object from index j on, where a key must open.
ParseMembers(text, j, pairs) ==
    IF At(text, j) # QUOTE THEN Fail ELSE AfterKey(text, pairs, ParseString(text, j))

ParseObject(text, j) ==
    IF At(text, j) = RBRACE THEN Ok(j + 1, Node("object", <<>>, <<>>))
    ELSE ParseMembers(text, j, <<>>)

ElementEnd(text, elements, m) ==
    IF At(text, m) = RBRACKET THEN Ok(m + 1, Node("array", <<>>, elements))
    ELSE IF At(text, m) = COMMA THEN ParseElements(text, SkipWs(text, m + 1), elements)
    ELSE Fail

AfterElement(text, elements, value) ==
    IF ~value.ok THEN Fail
    ELSE ElementEnd(text, Append(elements, value.val), SkipWs(text, value.pos))

ParseElements(text, j, elements) == AfterElement(text, elements, ParseValue(text, j))

ParseArray(text, j) ==
    IF At(text, j) = RBRACKET THEN Ok(j + 1, Node("array", <<>>, <<>>))
    ELSE ParseElements(text, j, <<>>)

\* The JSON value that starts at i.
ParseValue(text, i) ==
    IF At(text, i) = QUOTE THEN ParseString(text, i)
    ELSE IF At(text, i) = LBRACE THEN ParseObject(text, SkipWs(text, i + 1))
    ELSE IF At(text, i) = LBRACKET THEN ParseArray(text, SkipWs(text, i + 1))
    ELSE IF LiteralAt(text, i) # 0 THEN ParseLiteral(text, i, LiteralAt(text, i))
    ELSE ParseNumber(text, i)

\* Nothing but whitespace may follow the value.
WholeText(s, r) == IF r.ok /\ SkipWs(s, r.pos) = Len(s) + 1 THEN r ELSE Fail

\* json.loads(s): ok with the value, or not ok (it raises).
JsonLoads(s) == WholeText(s, ParseValue(s, SkipWs(s, 1)))

(***************************************************************************)
(* _extract_apollo_state: what it returns ("state" with the value, "None"),*)
(* or "raise" for an exception that leaves it; and the slice it cut.       *)
(***************************************************************************)
NotFound == [kind |-> "None", value |-> NoNode, json_str |-> Unset]

Found(value) == [kind |-> "state", value |-> value, json_str |-> Unset]

RaisedOut == [kind |-> "raise", value |-> NoNode, json_str |-> Unset]

\* A second attempt whose exception is not caught.
SecondTryRaises(r) == IF r.ok THEN Found(r.val) ELSE RaisedOut

\* try: return json.loads(<re-encoded>) except Exception: return None
SecondTry(r) == IF r.ok THEN Found(r.val) ELSE NotFound

\* try: return json.loads(json_str) except Exception: <second attempt>
FirstTry(json_str, r) ==
    IF r.ok THEN Found(r.val) ELSE SecondTry(JsonLoads(DropSurrogates(json_str)))

Loads(json_str) == FirstTry(json_str, JsonLoads(json_str))

WithSlice(json_str, r) == [r EXCEPT !.json_str = Holding(json_str)]

\* json_str = script_text[start:end], then the rewrite and the parse.
Sliced(json_str) == WithSlice(json_str, Loads(RewriteUndefined(json_str)))

FromEnd(script_text_, start, end) ==
    IF end = 0 THEN NotFound ELSE Sliced(SubSeq(script_text_, start, end))

FromBrace(script_text_, start) ==
    IF start = 0 THEN NotFound
    ELSE FromEnd(script_text_, start, ScanEnd(script_text_, start))

FromMarker(script_text_, idx) ==
    IF idx = 0 THEN NotFound
    ELSE FromBrace(script_text_, Find(script_text_, <<LBRACE>>, idx))

_extract_apollo_state(script_text_) ==
    IF script_text_ = <<>> THEN NotFound
    ELSE FromMarker(script_text_, Find(script_text_, MARKER, 1))

(***************************************************************************)
(* Specification of the extractor: the text of the script tag is written   *)
(* piece by piece, with or without an embedded state, then extracted.      *)
(***************************************************************************)
MaxPieces == 4

SURROGATE == 55296

\* Embedded states: flat, nested with siblings, with an undefined value,
\* and with braces inside string values.
ObjectPool ==
    {Str(<<"{", "\"", "a", "\"", ":", "1", "}">>),
     Str(<<"{", "\"", "a", "\"", ":", "{", "\"", "b", "\"", ":", "2", "}", ",", "\"", "c", "\"", ":", "{", "}", "}">>),
     Str(<<"{", "\"", "p", "\"", ":", " ", "u", "n", "d", "e", "f", "i", "n", "e", "d", "}">>),
     Str(<<"{", "\"", "s", "\"", ":", "\"", "{", "x", "}", "\"", "}">>),
     Str(<<"{", "\"", "s", "\"", ":", "\"", "}", "\"", "}">>),
     Str(<<"{", "\"", "s", "\"", ":", "\"", "{", "\"", "}">>)}

\* Other pieces of the text: trailing code, lone braces, the marker alone,
\* a slice that is no JSON, one that is JSON once a surrogate is dropped,
\* and another object.
MarkupPool ==
    {Str(<<";", "<", "/">>), <<LBRACE>>, <<RBRACE>>, MARKER \o Str(<<"=">>), Str(<<"{", ",", "}">>),
     <<LBRACE, SURROGATE, RBRACE>>, Str(<<"{", "\"", "k", "\"", ":", "0", "}">>)}

NoResult == [kind |-> "none", value |-> NoNode, json_str |-> Unset]

ExtractIdle ==
    /\ script_text = <<>>
    /\ n_pieces = 0
    /\ embedded = Unset
    /\ apollo = NoResult
    /\ extract_pc = "write"

ExtractInit == ExtractIdle

WriteMarkup ==
    /\ extract_pc = "write"
    /\ n_pieces < MaxPieces
    /\ \E piece \in MarkupPool : script_text' = script_text \o piece
    /\ n_pieces' = n_pieces + 1
    /\ UNCHANGED <<embedded, apollo, extract_pc>>
    /\ UNCHANGED extractOthers

\* The page assigns a state to the marker: window.APOLLO_STATE = {...}
EmbedState ==
    /\ extract_pc = "write"
    /\ n_pieces < MaxPieces
    /\ embedded = Unset
    /\ \E object \in ObjectPool :
            /\ script_text' = script_text \o MARKER \o Str(<<" ", "=", " ">>) \o object
            /\ embedded' = Holding([at |-> Len(script_text) + 1, text |-> object])
    /\ n_pieces' = n_pieces + 1
    /\ UNCHANGED <<apollo, extract_pc>>
    /\ UNCHANGED extractOthers

ExtractApolloState ==
    /\ extract_pc = "write"
    /\ apollo' = _extract_apollo_state(script_text)
    /\ extract_pc' = "done"
    /\ UNCHANGED <<script_text, n_pieces, embedded>>
    /\ UNCHANGED extractOthers

ExtractNext == WriteMarkup \/ EmbedState \/ ExtractApolloState

\* C9: when the first marker of the text is followed by a JSON object and
\* then by other content, the slice cut for the parser is exactly that
\* object, whatever its nesting and also when its string values contain
\* '{' or '}'.
C9_ExactObjectSlice ==
    (/\ extract_pc = "done"
     /\ embedded # Unset
     /\ Find(script_text, MARKER, 1) = embedded[1].at) =>
        apollo.json_str = Holding(embedded[1].text)

\* The conditions under which nothing can be extracted.
MarkerAbsent == \A k \in 1..Len(script_text) : ~OccursAt(MARKER, script_text, k)

MarkerAt == CHOOSE k \in 1..Len(script_text) :
                OccursAt(MARKER, script_text, k)
                    /\ \A j \in 1..(k - 1) : ~OccursAt(MARKER, script_text, j)

NoBraceFollows == ~MarkerAbsent /\ \A k \in MarkerAt..Len(script_text) : script_text[k] # LBRACE

BraceAt == CHOOSE k \in MarkerAt..Len(script_text) :
                script_text[k] = LBRACE
                    /\ \A j \in MarkerAt..(k - 1) : script_text[j] # LBRACE

NeverBalances ==
    /\ ~MarkerAbsent
    /\ ~NoBraceFollows
    /\ \A e \in BraceAt..Len(script_text) : Braces(script_text, BraceAt, e) # 0

Unparseable ==
    /\ apollo.json_str # Unset
    /\ ~JsonLoads(RewriteUndefined(apollo.json_str[1])).ok
    /\ ~JsonLoads(DropSurrogates(RewriteUndefined(apollo.json_str[1]))).ok

\* C10: the extractor never raises: it returns a parsed state or None, and
\* None when the marker is absent, when no '{' follows the marker, when the
\* braces never balance before the end of the text, and when the slice
\* cannot be parsed even after it was re-encoded.
C10_ExtractorNeverRaises ==
    extract_pc = "done" =>
        /\ apollo.kind \in {"state", "None"}
        /\ apollo.kind = "state" => apollo.value.t = "object"
        /\ (MarkerAbsent \/ NoBraceFollows \/ NeverBalances \/ Unparseable)
                => apollo.kind = "None"

\* A balanced slice after the marker that is no JSON, before and after the
\* re-encoding.
C10_Witness ==
    /\ extract_pc = "done"
    /\ Unparseable
    /\ apollo.kind = "None"

(***************************************************************************)
(* Numbers (app.py, _to_float).  A float is held as the decimal m / 10^e   *)
(* it was written as, or as nan, inf or -inf.  The strings of the model    *)
(* hold no letter of an exponent, of 'inf' or of 'nan', and no underscore; *)
(* the numbers of a state are written without an exponent.                 *)
(***************************************************************************)
RECURSIVE Fin(_, _)
Fin(m, e) ==
    IF m = 0 THEN [kind |-> "fin", m |-> 0, e |-> 0]
    ELSE IF e > 0 /\ m % 10 = 0 THEN Fin(m \div 10, e - 1)
    ELSE [kind |-> "fin", m |-> m, e |-> e]

ZERO == Fin(0, 0)

NAN == [kind |-> "nan", m |-> 0, e |-> 0]

INF == [kind |-> "inf", m |-> 0, e |-> 0]

NINF == [kind |-> "ninf", m |-> 0, e |-> 0]

RECURSIVE Pow10(_)
Pow10(n) == IF n = 0 THEN 1 ELSE 10 * Pow10(n - 1)

Max(a, b) == IF a >= b THEN a ELSE b

\* The numerator of the finite a over 10^e, for e >= a.e
Scaled(a, e) == a.m * Pow10(e - a.e)

\* a < b on floats: false as soon as one of them is nan.
Lt(a, b) ==
    IF a.kind = "nan" \/ b.kind = "nan" THEN FALSE
    ELSE IF a.kind = "inf" \/ b.kind = "ninf" THEN FALSE
    ELSE IF a.kind = "ninf" \/ b.kind = "inf" THEN TRUE
    ELSE Scaled(a, Max(a.e, b.e)) < Scaled(b, Max(a.e, b.e))

Gt(a, b) == Lt(b, a)

DOT == Ord(".")

MINUS == Ord("-")

PLUS == Ord("+")

Count(s, c) == Cardinality({i \in 1..Len(s) : s[i] = c})

RECURSIVE DigitsValue(_)
DigitsValue(ds) ==
    IF ds = <<>> THEN 0
    ELSE 10 * DigitsValue(SubSeq(ds, 1, Len(ds) - 1)) + (ds[Len(ds)] - 48)

AllDigits(ds) == \A i \in 1..Len(ds) : ds[i] \in Digits

\* float(v) of a str; unset when it raises ValueError.
WithFraction(sign, int, frac) ==
    IF AllDigits(int) /\ AllDigits(frac) /\ Len(int) + Len(frac) >= 1
    THEN Holding(Fin(sign * DigitsValue(int \o frac), Len(frac)))
    ELSE Unset

FloatDigits(r, sign, k) ==
    IF k = 0
    THEN IF r # <<>> /\ AllDigits(r) THEN Holding(Fin(sign * DigitsValue(r), 0)) ELSE Unset
    ELSE WithFraction(sign, SubSeq(r, 1, k - 1), SubSeq(r, k + 1, Len(r)))

Unsigned(r, sign) == FloatDigits(r, sign, Find(r, <<DOT>>, 1))

Signed(v) ==
    IF v # <<>> /\ v[1] = MINUS THEN Unsigned(Tail(v), 0 - 1)
    ELSE IF v # <<>> /\ v[1] = PLUS THEN Unsigned(Tail(v), 1)
    ELSE Unsigned(v, 1)

float(v) == Signed(strip(v))

\* except Exception: return 0.0
OrZero(r) == IF r = Unset THEN ZERO ELSE r[1]

\* re.sub(r"[^0-9\.,-]", "", v) keeps these
IsNumericChar(c) == c \in (Digits \cup {DOT, COMMA, MINUS})

IsNotDot(c) == c # DOT

CommaToDot(v) == [i \in 1..Len(v) |-> IF v[i] = COMMA THEN DOT ELSE v[i]]

\* v.count(",") == 1 and v.count(".") == 0
SoleComma(v) == Count(v, COMMA) = 1 /\ Count(v, DOT) = 0

Cleaned(v) == IF SoleComma(v) THEN CommaToDot(v) ELSE v

\* The str branch, from the stripped v on.
StrToFloat(v) ==
    IF SoleComma(v) THEN float(CommaToDot(SelectSeq(v, IsNotDot)))
    ELSE float(Cleaned(SelectSeq(v, IsNumericChar)))

TRUE_ == Str(<<"t", "r", "u", "e">>)

FALSE_ == Str(<<"f", "a", "l", "s", "e">>)

\* float(val) of a bool, of nan and of the infinities (json.loads gives
\* them for true, false, NaN, Infinity, -Infinity); null is None.
LiteralToFloat(s) ==
    IF s = TRUE_ THEN Fin(1, 0)
    ELSE IF s = Str(<<"N", "a", "N">>) THEN NAN
    ELSE IF s = Str(<<"I", "n", "f", "i", "n", "i", "t", "y">>) THEN INF
    ELSE IF s = Str(<<"-", "I", "n", "f", "i", "n", "i", "t", "y">>) THEN NINF
    ELSE ZERO

\* _to_float of a value of the state (a node), of None (no node).
_to_float(val) ==
    IF val.t = "number" THEN OrZero(float(val.s))
    ELSE IF val.t = "literal" THEN LiteralToFloat(val.s)
    ELSE IF val.t = "string" THEN OrZero(StrToFloat(strip(val.s)))
    ELSE ZERO

(***************************************************************************)
(* Specification of the coercion: a value is typed piece by piece, or a    *)
(* number, a bool or None is passed, and _to_float is applied to it.  A    *)
(* typed str has at most nine digits.                                      *)
(***************************************************************************)
MaxChars == 9

\* Pieces of a price as pages and sheets write it.
TokenPool == {Str(<<"R", "$", " ">>), Str(<<"1">>), Str(<<"1", "2">>), Str(<<",">>), Str(<<".">>), Str(<<"5", "0">>), Str(<<"2", "3", "4">>)}

\* Values that are no str: an int, a float, True, None.
PassedPool ==
    {Node("number", Str(<<"1", "0", "0">>), <<>>), Node("number", Str(<<"1", "2", ".", "5">>), <<>>),
     Node("literal", TRUE_, <<>>), NoNode}

CoerceIdle ==
    /\ arg = Node("string", <<>>, <<>>)
    /\ coerced = ZERO
    /\ coerce_pc = "type"

CoerceInit == CoerceIdle

TypeToken ==
    /\ coerce_pc = "type"
    /\ arg.t = "string"
    /\ \E token \in TokenPool :
            /\ Len(arg.s \o token) <= MaxChars
            /\ Cardinality({i \in 1..Len(arg.s \o token) : (arg.s \o token)[i] \in Digits}) <= 9
            /\ arg' = Node("string", arg.s \o token, <<>>)
    /\ UNCHANGED <<coerced, coerce_pc>>
    /\ UNCHANGED coerceOthers

PassValue ==
    /\ coerce_pc = "type"
    /\ arg = Node("string", <<>>, <<>>)
    /\ \E passed \in PassedPool : arg' = passed
    /\ UNCHANGED <<coerced, coerce_pc>>
    /\ UNCHANGED coerceOthers

ToFloat ==
    /\ coerce_pc = "type"
    /\ coerced' = _to_float(arg)
    /\ coerce_pc' = "done"
    /\ UNCHANGED arg
    /\ UNCHANGED coerceOthers

CoerceNext == TypeToken \/ PassValue \/ ToFloat

IsNotComma(c) == c # COMMA

\* The number a price string stands for: what is no digit, separator or
\* sign is removed; a comma that is the only separator is the decimal
\* separator, a comma beside a point separates thousands.
PriceText(v) ==
    IF Count(v, DOT) = 0 THEN CommaToDot(v) ELSE SelectSeq(v, IsNotComma)

PriceValue(s) == OrZero(float(PriceText(SelectSeq(s, IsNumericChar))))

\* C13: _to_float removes the non-numeric characters of a price string,
\* reads a comma as the decimal separator when it is the only separator
\* ("12,50" and "R$ 12,50" are 12.50) and strips it as a thousands
\* separator when a point is present too ("1,234.56" is 1234.56); a number
\* passes through unchanged; a value that cannot be coerced gives 0.
C13_NumericCoercion ==
    coerce_pc = "done" =>
        /\ (arg.t = "string" /\ Count(arg.s, COMMA) <= 1) => coerced = PriceValue(arg.s)
        /\ arg.t = "number" => Holding(coerced) = float(arg.s)
        /\ arg = NoNode => coerced = ZERO

(***************************************************************************)
(* Values of the state (app.py, buscar_produtos): a dict is an object      *)
(* node, its items are its pairs in insertion order, None is no node and   *)
(* the null of the state.                                                  *)
(***************************************************************************)
StrNode(s) == Node("string", s, <<>>)

NumNode(s) == Node("number", s, <<>>)

Pair(key, value) == Node("pair", key, <<value>>)

Dict(pairs) == Node("object", <<>>, pairs)

IsDict(v) == v.t = "object"

IsNone(v) == v = NoNode \/ (v.t = "literal" /\ v.s = NULL)

\* key in d
HasKey(d, key) == \E n \in 1..Len(d.kids) : d.kids[n].s = key

\* d.get(key)
Get(d, key) ==
    IF HasKey(d, key)
    THEN d.kids[CHOOSE n \in 1..Len(d.kids) : d.kids[n].s = key].kids[1]
    ELSE NoNode

\* bool(v)
Truthy(v) ==
    IF v.t = "string" THEN v.s # <<>>
    ELSE IF v.t = "number" THEN _to_float(v) # ZERO
    ELSE IF v.t = "literal" THEN v.s \notin {NULL, FALSE_}
    ELSE IF v.t \in {"object", "array"} THEN v.kids # <<>>
    ELSE FALSE

\* a or b
Or(a, b) == IF Truthy(a) THEN a ELSE b

\* s.startswith(prefix)
StartsWith(s, prefix) == OccursAt(prefix, s, 1)

\* s.endswith(suffix)
EndsWith(s, suffix) == OccursAt(suffix, s, Len(s) - Len(suffix) + 1)

PRODUCT_PREFIX == Str(<<"P", "u", "b", "l", "i", "c", "V", "i", "e", "w", "e", "r", "P", "r", "o", "d", "u", "c", "t", ":">>)

PRICING_PREFIX == Str(<<"P", "u", "b", "l", "i", "c", "V", "i", "e", "w", "e", "r", "P", "r", "o", "d", "u", "c", "t", "P", "r", "i", "c", "i", "n", "g", ":">>)

PRICE == Str(<<"p", "r", "i", "c", "e">>)

PROMOTIONAL_PRICE == Str(<<"p", "r", "o", "m", "o", "t", "i", "o", "n", "a", "l", "P", "r", "i", "c", "e">>)

\* The items of the state whose key starts with the prefix and whose value
\* is a dict, as indices into the items.
Keyed(apollo_, prefix) ==
    {n \in 1..Len(apollo_.kids) :
        StartsWith(apollo_.kids[n].s, prefix) /\ IsDict(apollo_.kids[n].kids[1])}

\* _pick_product: the first such item, as (value, key.split(":", 1)[1]);
\* unset for (None, None).
ProductAt(apollo_, n) ==
    IF n = 0 THEN Unset
    ELSE Holding([obj |-> apollo_.kids[n].kids[1],
                  id |-> SubSeq(apollo_.kids[n].s, Len(PRODUCT_PREFIX) + 1,
                                Len(apollo_.kids[n].s))])

_pick_product(apollo_) == ProductAt(apollo_, LeastOf(Keyed(apollo_, PRODUCT_PREFIX)))

\* The first loop of _pick_pricing: the pricing items whose key holds the
\* product id.
Scoped(apollo_, product_id) ==
    IF product_id = <<>> THEN {}
    ELSE {n \in Keyed(apollo_, PRICING_PREFIX) : Contains(product_id, apollo_.kids[n].s)}

\* The second loop: the pricing items that have one of the two price keys.
Priced(apollo_) ==
    {n \in Keyed(apollo_, PRICING_PREFIX) :
        HasKey(apollo_.kids[n].kids[1], PRICE)
            \/ HasKey(apollo_.kids[n].kids[1], PROMOTIONAL_PRICE)}

\* A second loop that is run also when the first one found only items
\* without a price key.
CandidatesOrPriced(apollo_, scoped) ==
    IF scoped = {} \/ \A n \in scoped : n \notin Priced(apollo_) THEN Priced(apollo_) ELSE scoped

\* if not candidates: <second loop>
Candidates(apollo_, scoped) == IF scoped = {} THEN Priced(apollo_) ELSE scoped

\* A sort key that puts the base price first.
SortRankBaseFirst(v) ==
    (IF HasKey(v, PRICE) THEN 2 ELSE 0) + (IF HasKey(v, PROMOTIONAL_PRICE) THEN 1 ELSE 0)

\* The sort key ("promotionalPrice" in v, "price" in v), as a rank.
SortRank(v) ==
    (IF HasKey(v, PROMOTIONAL_PRICE) THEN 2 ELSE 0) + (IF HasKey(v, PRICE) THEN 1 ELSE 0)

\* candidates.sort(key=..., reverse=True); candidates[0]: the sort is
\* stable, so the first of the candidates of the highest rank; 0 for None.
FirstOfBest(apollo_, cands) ==
    LeastOf({n \in cands :
                \A k \in cands :
                    SortRank(apollo_.kids[k].kids[1]) <= SortRank(apollo_.kids[n].kids[1])})

PricingAt(apollo_, n) == IF n = 0 THEN NoNode ELSE apollo_.kids[n].kids[1]

\* _pick_pricing: the pricing dict, no node for None.
_pick_pricing(apollo_, product_id) ==
    PricingAt(apollo_, FirstOfBest(apollo_, Candidates(apollo_, Scoped(apollo_, product_id))))

\* _to_float(pricing.get("price") if pricing else 0)
PrecoDe(pricing) == IF Truthy(pricing) THEN _to_float(Get(pricing, PRICE)) ELSE ZERO

\* promocional not in (None, "")
Given(promocional) == ~IsNone(promocional) /\ promocional # StrNode(<<>>)

\* _to_float(promocional if promocional not in (None, "") else 0)
PrecoPor(pricing) ==
    IF Truthy(pricing) /\ Given(Get(pricing, PROMOTIONAL_PRICE))
    THEN _to_float(Get(pricing, PROMOTIONAL_PRICE))
    ELSE ZERO

(***************************************************************************)
(* The discount (app.py, lines 554-560).  The prices of the model are      *)
(* multiples of 0.25 below 2000: a double holds them and their difference  *)
(* exactly, so the only roundings are those of the division and of the     *)
(* product, made here on the 53 bits of a double (round half to even).     *)
(* A 53-bit number is held as five limbs, the first above 52 bits.         *)
(***************************************************************************)
LIMB == 8192

RECURSIVE Pow2(_)
Pow2(n) == IF n = 0 THEN 1 ELSE 2 * Pow2(n - 1)

\* The limbs of `raw` plus c at the lowest one, every limb but the first
\* brought below LIMB.
RECURSIVE Normal(_, _)
Normal(raw, c) ==
    IF Len(raw) = 1 THEN <<raw[1] + c>>
    ELSE Normal(SubSeq(raw, 1, Len(raw) - 1), (raw[Len(raw)] + c) \div LIMB)
            \o <<(raw[Len(raw)] + c) % LIMB>>

\* The next n limbs of r / b, for r < b, and the remainder after them.
RECURSIVE Limbs(_, _, _)
Limbs(r, b, n) ==
    IF n = 0 THEN <<>> ELSE <<(r * LIMB) \div b>> \o Limbs((r * LIMB) % b, b, n - 1)

RECURSIVE Remainder(_, _, _)
Remainder(r, b, n) == IF n = 0 THEN r ELSE Remainder((r * LIMB) % b, b, n - 1)

\* Round half to even: 1 when the part cut off (twice `low` against `unit`)
\* rounds the kept part up.
RoundUp(low2, unit, kept) ==
    IF low2 > unit \/ (low2 = unit /\ kept % 2 = 1) THEN 1 ELSE 0

\* The least k >= 1 with a * 2^k >= b, for 0 < a < b.
Shift(a, b) == CHOOSE k \in 1..30 : a * Pow2(k) >= b /\ a * Pow2(k - 1) < b

\* a / b as a double, for 0 < a < b: the limbs of its 53 bits, worth
\* 2^-(52 + Shift(a, b)) each unit.
Mantissa(r, b, limbs) ==
    Normal(<<1>> \o limbs, RoundUp(2 * Remainder(r, b, 4), b, limbs[4]))

Quotient(a, b) == Mantissa(a - b, b, Limbs(a - b, b, 4))

\* x * 100 as a double: the exact product, cut to 53 bits.  Its first limb
\* is between 100 and 200, so 6 or 7 bits are cut off the last limb.
Cut(p) == IF p[1] < 128 THEN Pow2(6) ELSE Pow2(7)

Rounded(p, unit) ==
    Normal([i \in 1..5 |->
               IF i < 5 THEN p[i]
               ELSE p[5] - (p[5] % unit)
                        + unit * RoundUp(2 * (p[5] % unit), unit, p[5] \div unit)], 0)

Product(p) == Rounded(p, Cut(p))

Times100(x) == Product(Normal([i \in 1..5 |-> 100 * x[i]], 0))

\* int(((a / b) * 100)), for integers 0 < a < b.
Percent(a, b) == Times100(Quotient(a * Pow2(Shift(a, b)), b))[1] \div Pow2(Shift(a, b))

\* max(preco_de_num, 0.0001)
AtLeastTenThousandth(de) == IF Lt(de, Fin(1, 4)) THEN Fin(1, 4) ELSE de

PercentOf(de, por, den, e) == Percent(Scaled(de, e) - Scaled(por, e), Scaled(den, e))

\* int(x) of a discount as the claim states it: floor(100 * (de - por) / de)
PercentExact(de, por, den, e) ==
    (100 * (Scaled(de, e) - Scaled(por, e))) \div Scaled(den, e)

\* int(((preco_de_num - preco_por_num) / max(preco_de_num, 0.0001)) * 100)
\* in a try whose except gives 0: an infinite preco_de_num makes the
\* quotient nan, and int(nan) raises.
Desconto(de, por) ==
    IF de.kind # "fin" THEN 0
    ELSE PercentOf(de, por, AtLeastTenThousandth(de),
                   Max(Max(de.e, por.e), AtLeastTenThousandth(de).e))

\* A discount computed also when preco_por_num is not above 0.
PorcentagemSemPor(de, por) ==
    IF Gt(de, por) THEN (IF Gt(por, ZERO) THEN Desconto(de, por) ELSE 100) ELSE 0

\* porcentagem_desconto = 0; if preco_de_num > preco_por_num and preco_por_num > 0: ...
Porcentagem(de, por) == IF Gt(de, por) /\ Gt(por, ZERO) THEN Desconto(de, por) ELSE 0

(***************************************************************************)
(* Markup (app.py, buscar_produtos): the soup is the list of the elements  *)
(* of the parsed page in document order; an element has a tag, its class   *)
(* tokens, its other attributes, the text that stands in it before its     *)
(* children, and the index of its parent (0 at the top).                   *)
(***************************************************************************)
El(tag, class, attrs, text, parent) ==
    [tag |-> tag, class |-> class, attrs |-> attrs, text |-> text, parent |-> parent]

Attr(name, value) == [name |-> name, value |-> value]

HasAttr(el, name) == \E n \in 1..Len(el.attrs) : el.attrs[n].name = name

\* el.get(name): no node for None.
AttrOf(el, name) ==
    IF HasAttr(el, name)
    THEN StrNode(el.attrs[CHOOSE n \in 1..Len(el.attrs) : el.attrs[n].name = name].value)
    ELSE NoNode

\* The value of the class attribute.
ClassAttr(el) == JoinWith(el.class, 32)

RECURSIVE Ancestors(_, _)
Ancestors(soup_, i) ==
    IF soup_[i].parent = 0 THEN {}
    ELSE {soup_[i].parent} \cup Ancestors(soup_, soup_[i].parent)

\* One compound of a selector: a tag ("*" for any), a class token (.x), a
\* part of the class attribute ([class*="x"]), attributes to be there ([x]).
Compound(tag, class, part, has) == [tag |-> tag, class |-> class, part |-> part, has |-> has]

Tag(tag) == Compound(tag, Unset, Unset, {})

TagClass(tag, class) == Compound(tag, Holding(class), Unset, {})

TagPart(tag, part) == Compound(tag, Unset, Holding(part), {})

Matches(el, c) ==
    /\ c.tag = "*" \/ el.tag = c.tag
    /\ c.class = Unset \/ InSeq(el.class, c.class[1])
    /\ c.part = Unset \/ (el.class # <<>> /\ Contains(c.part[1], ClassAttr(el)))
    /\ \A a \in c.has : HasAttr(el, a)

\* The element i is selected by a selector of one compound, or of two
\* joined by the descendant combinator.
Selects(soup_, i, selector) ==
    /\ Matches(soup_[i], selector[Len(selector)])
    /\ Len(selector) = 2 => \E a \in Ancestors(soup_, i) : Matches(soup_[a], selector[1])

\* soup.select(selector): the selected elements in document order.
Select(soup_, selector) ==
    SelectSeq(Indices(Len(soup_)), LAMBDA i : Selects(soup_, i, selector))

\* soup.select_one(selector): the first of them, 0 for None.
SelectOne(soup_, selector) ==
    LeastOf({i \in 1..Len(soup_) : Selects(soup_, i, selector)})

\* el.get_text(strip=True): the texts of the element and of its
\* descendants, each one stripped.
GetText(soup_, i) ==
    Concat([j \in 1..Len(soup_) |->
               IF j = i \/ i \in Ancestors(soup_, j) THEN strip(soup_[j].text) ELSE <<>>])

selectors_preco ==
    <<<<TagClass("span", Str(<<"p", "r", "o", "m", "o", "t", "i", "o", "n">>))>>,
      <<TagPart("span", Str(<<"p", "r", "o", "m", "o", "t", "i", "o", "n">>))>>,
      <<TagPart("span", Str(<<"p", "r", "o", "m", "o", "t", "i", "o", "n", "a", "l">>))>>,
      <<TagPart("div", Str(<<"p", "r", "i", "c", "e">>)), TagPart("span", Str(<<"p", "r", "o", "m", "o", "t", "i", "o", "n", "a", "l">>))>>,
      <<TagPart("div", Str(<<"p", "r", "i", "c", "e">>)), TagPart("span", Str(<<"p", "r", "o", "m", "o", "t", "i", "o", "n">>))>>,
      <<TagPart("span", Str(<<"s", "a", "l", "e">>))>>,
      <<TagPart("span", Str(<<"d", "i", "s", "c", "o", "u", "n", "t">>))>>,
      <<TagClass("*", Str(<<"p", "r", "o", "d", "u", "c", "t", "-", "p", "r", "i", "c", "e", "-", "p", "r", "o", "m", "o", "t", "i", "o", "n", "a", "l">>))>>,
      <<TagClass("*", Str(<<"p", "r", "o", "m", "o", "t", "i", "o", "n", "a", "l", "-", "p", "r", "i", "c", "e">>))>>,
      <<TagClass("*", Str(<<"s", "a", "l", "e", "-", "p", "r", "i", "c", "e">>))>>,
      <<TagClass("div", Str(<<"p", "r", "o", "d", "u", "c", "t", "-", "r", "e", "n", "d", "e", "r", "e", "r", "-", "p", "r", "i", "c", "i", "n", "g", "-", "w", "r", "a", "p", "p", "e", "r">>)), TagPart("span", Str(<<"p", "r", "o", "m", "o", "t", "i", "o", "n">>))>>,
      <<TagClass("div", Str(<<"p", "r", "o", "d", "u", "c", "t", "-", "r", "e", "n", "d", "e", "r", "e", "r", "-", "a", "c", "t", "i", "v", "e", "-", "p", "r", "i", "c", "e", "-", "w", "r", "a", "p", "p", "e", "r">>)), Tag("span")>>>>

\* re.search(r'R?\$?\s*(\d+[.,]\d{2})', texto): group 1 opens at the first
\* digit that starts digits, a point or a comma, and two digits.
PriceShapedAt(texto, g) ==
    /\ At(texto, g) \in Digits
    /\ At(texto, SkipDigits(texto, g)) \in {DOT, COMMA}
    /\ At(texto, SkipDigits(texto, g) + 1) \in Digits
    /\ At(texto, SkipDigits(texto, g) + 2) \in Digits

GroupAt(texto, g) ==
    IF g = 0 THEN Unset ELSE Holding(SubSeq(texto, g, SkipDigits(texto, g) + 2))

\* match.group(1), unset when there is no match.
PriceMatch(texto) == GroupAt(texto, LeastOf({g \in 1..Len(texto) : PriceShapedAt(texto, g)}))

\* valor_encontrado, unset when the text has no match.
ValorEncontrado(match) == IF match = Unset THEN Unset ELSE Holding(_to_float(StrNode(match[1])))

\* A value that is taken whatever the original price.
AcceptedAnyPrice(valor, preco_de_num) == Gt(valor, ZERO)

\* valor > 0 and valor < preco_de_num
Accepted(valor, preco_de_num) == Gt(valor, ZERO) /\ Lt(valor, preco_de_num)

\* One step of the two loops over the selectors and their elements.
Tentativa(soup_, s, i) ==
    [selector |-> s, el |-> i, valor |-> ValorEncontrado(PriceMatch(GetText(soup_, i)))]

Tentativas(soup_) ==
    Concat([s \in 1..Len(selectors_preco) |->
               [k \in 1..Len(Select(soup_, selectors_preco[s])) |->
                   Tentativa(soup_, s, Select(soup_, selectors_preco[s])[k])]])

Takes(t, preco_de_num) == t.valor # Unset /\ Accepted(t.valor[1], preco_de_num)

\* The steps go on after a value was taken: the last one taken stays.
UntilEnd(all, preco_de_num, first) ==
    [tried |-> all,
     por |-> IF first = 0 THEN ZERO
             ELSE all[CHOOSE n \in 1..Len(all) :
                         /\ Takes(all[n], preco_de_num)
                         /\ \A k \in (n + 1)..Len(all) : ~Takes(all[k], preco_de_num)].valor[1]]

\* The steps made until a value is taken (break, then break), and the
\* value; it is 0 when none is taken.
UntilTaken(all, preco_de_num, first) ==
    [tried |-> IF first = 0 THEN all ELSE SubSeq(all, 1, first),
     por |-> IF first = 0 THEN ZERO ELSE all[first].valor[1]]

FirstTaken(all, preco_de_num) ==
    UntilTaken(all, preco_de_num,
               LeastOf({n \in 1..Len(all) : Takes(all[n], preco_de_num)}))

\* Lines 509-523: the price of the markup.
MarkupPrice(soup_, preco_de_num) == FirstTaken(Tentativas(soup_), preco_de_num)

\* 'promotion' in field.lower() or 'sale' in field.lower() or 'discount' in field.lower()
PromoField(field) ==
    \/ Contains(Str(<<"p", "r", "o", "m", "o", "t", "i", "o", "n">>), lower(field))
    \/ Contains(Str(<<"s", "a", "l", "e">>), lower(field))
    \/ Contains(Str(<<"d", "i", "s", "c", "o", "u", "n", "t">>), lower(field))

\* The fields of the dict at item n of the state that carry such a name.
FieldsOf(apollo_, n) ==
    IF IsDict(apollo_.kids[n].kids[1])
    THEN SelectSeq(apollo_.kids[n].kids[1].kids, LAMBDA p : PromoField(p.s))
    ELSE <<>>

\* One step of the two loops over the items of the state and their fields.
Campos(apollo_) ==
    Concat([n \in 1..Len(apollo_.kids) |->
               [k \in 1..Len(FieldsOf(apollo_, n)) |->
                   [item |-> n, field |-> k,
                    valor |-> Holding(_to_float(FieldsOf(apollo_, n)[k].kids[1]))]]])

\* Lines 528-538: the price of a field of the state.
StatePrice(apollo_, preco_de_num) == FirstTaken(Campos(apollo_), preco_de_num)

(***************************************************************************)
(* The image of a product (app.py, _extract_image_from_html and            *)
(* _resolve_image_url).  A URL is a value of the state or a str node; an   *)
(* exception is the node RAISED.                                           *)
(***************************************************************************)
placeholder == StrNode(Str(<<"h", "t", "t", "p", "s", ":", "/", "/", "v", "i", "a", ".", "p", "l", "a", "c", "e", "h", "o", "l", "d", "e", "r", ".", "c", "o", "m", "/", "1", "2", "0">>))

RAISED == Node("raise", <<>>, <<>>)

image_selectors ==
    <<<<TagClass("div", Str(<<"p", "r", "o", "d", "u", "c", "t", "-", "i", "m", "a", "g", "e", "-", "g", "a", "l", "l", "e", "r", "y", "-", "a", "c", "t", "i", "v", "e", "-", "i", "m", "a", "g", "e">>)), Compound("img", Unset, Unset, {"src"})>>,
      <<TagClass("div", Str(<<"p", "r", "o", "d", "u", "c", "t", "-", "i", "m", "a", "g", "e", "-", "g", "a", "l", "l", "e", "r", "y", "-", "d", "e", "s", "k", "t", "o", "p", "-", "v", "i", "e", "w">>)), Compound("img", Unset, Unset, {"src"})>>,
      <<TagClass("div", Str(<<"p", "r", "o", "d", "u", "c", "t", "-", "i", "m", "a", "g", "e", "-", "g", "a", "l", "l", "e", "r", "y">>)), Compound("img", Unset, Unset, {"src"})>>,
      <<TagClass("div", Str(<<"s", "t", "a", "t", "i", "c", "-", "i", "m", "a", "g", "e", "-", "v", "i", "e", "w", "e", "r", "-", "c", "o", "n", "t", "a", "i", "n", "e", "r">>)), Compound("img", Unset, Unset, {"src"})>>,
      <<Compound("img", Unset, Holding(Str(<<"p", "r", "o", "d", "u", "c", "t", "-", "i", "m", "a", "g", "e">>)), {"src"})>>,
      <<Compound("img", Unset, Unset, {"src", "alt"})>>>>

\* (el.get(name) or '').strip(), for an element that has the attribute
Stripped(el, name) == strip(AttrOf(el, name).s)

\* src and not src.startswith('data:')
Usable(src) == src # <<>> /\ ~StartsWith(src, Str(<<"d", "a", "t", "a", ":">>))

\* What one selector adds to the candidates: (src, alt or '') of its first
\* element, when that has a usable src.
CandidateOf(soup_, i) ==
    IF i # 0 /\ Truthy(AttrOf(soup_[i], "src")) /\ Usable(Stripped(soup_[i], "src"))
    THEN <<[src |-> Stripped(soup_[i], "src"),
            alt |-> Or(AttrOf(soup_[i], "alt"), StrNode(<<>>)).s]>>
    ELSE <<>>

ImageCandidates(soup_) ==
    Concat([s \in 1..Len(image_selectors) |->
               CandidateOf(soup_, SelectOne(soup_, image_selectors[s]))])

\* The first candidate whose alt holds the product name, else the first.
Named(candidates, nome) ==
    LeastOf({n \in 1..Len(candidates) : Contains(lower(nome), lower(candidates[n].alt))})

PreferNamed(candidates, named) ==
    StrNode(candidates[IF named = 0 THEN 1 ELSE named].src)

\* Lines 377-382; nome_produto.lower() raises when the name is no str.
FromCandidates(candidates, nome_produto) ==
    IF ~Truthy(nome_produto) THEN StrNode(candidates[1].src)
    ELSE IF nome_produto.t # "string" THEN RAISED
    ELSE PreferNamed(candidates, Named(candidates, nome_produto.s))

\* soup.find(tag, <attribute>=value), 0 for None; rel is a list of tokens.
FindByAttr(soup_, tag, name, value) ==
    LeastOf({i \in 1..Len(soup_) :
                /\ soup_[i].tag = tag
                /\ HasAttr(soup_[i], name)
                /\ \/ AttrOf(soup_[i], name).s = value
                   \/ name = "rel" /\ InSeq(SplitOn(AttrOf(soup_[i], name).s, 32), value)})

FirstFound(a, b) == IF a # 0 THEN a ELSE b

\* soup.find('meta', property='og:image') or soup.find('meta', attrs={'name': 'og:image'})
OgImage(soup_) ==
    FirstFound(FindByAttr(soup_, "meta", "property", Str(<<"o", "g", ":", "i", "m", "a", "g", "e">>)),
               FindByAttr(soup_, "meta", "name", Str(<<"o", "g", ":", "i", "m", "a", "g", "e">>)))

\* if x and x.get(name): v = x.get(name).strip(); if v: return v
Content(soup_, i, name) ==
    IF i # 0 /\ Truthy(AttrOf(soup_[i], name)) THEN Stripped(soup_[i], name) ELSE <<>>

\* soup.find('img', src=True)
AnyImg(soup_) == LeastOf({i \in 1..Len(soup_) : soup_[i].tag = "img" /\ HasAttr(soup_[i], "src")})

\* Lines 399-403: the last resort returns the stripped src as it is.
LastResort(soup_, i) ==
    IF i # 0 /\ Truthy(AttrOf(soup_[i], "src")) THEN StrNode(Stripped(soup_[i], "src"))
    ELSE placeholder

AfterLink(soup_, href) ==
    IF href # <<>> THEN StrNode(href) ELSE LastResort(soup_, AnyImg(soup_))

\* A scan that passes over the og:image meta.
AfterOgPassedOver(soup_, content) ==
    AfterLink(soup_, Content(soup_, FindByAttr(soup_, "link", "rel", Str(<<"i", "m", "a", "g", "e", "_", "s", "r", "c">>)), "href"))

\* Lines 385-396: the content of the og:image meta, else the link.
AfterOg(soup_, content) ==
    IF content # <<>> THEN StrNode(content)
    ELSE AfterLink(soup_, Content(soup_, FindByAttr(soup_, "link", "rel", Str(<<"i", "m", "a", "g", "e", "_", "s", "r", "c">>)), "href"))

WithCandidates(soup_, nome_produto, candidates) ==
    IF candidates # <<>> THEN FromCandidates(candidates, nome_produto)
    ELSE AfterOg(soup_, Content(soup_, OgImage(soup_), "content"))

_extract_image_from_html(soup_, nome_produto) ==
    WithCandidates(soup_, nome_produto, ImageCandidates(soup_))

\* ref_key: the str itself, or image_ref.get("__ref") or image_ref.get("id")
RefKey(image_ref) ==
    IF image_ref.t = "string" THEN image_ref
    ELSE IF IsDict(image_ref) THEN Or(Get(image_ref, Str(<<"_", "_", "r", "e", "f">>)), Get(image_ref, Str(<<"i", "d">>)))
    ELSE NoNode

\* apollo.get(ref_key): a list or a dict is no key (TypeError), a key
\* that is no str is the key of no item.
FileObj(apollo_, ref_key) ==
    IF ref_key.t \in {"object", "array"} THEN RAISED
    ELSE IF ref_key.t = "string" THEN Get(apollo_, ref_key.s)
    ELSE NoNode

UrlOf(file_obj) ==
    IF file_obj = RAISED THEN RAISED
    ELSE IF IsDict(file_obj) THEN Or(Or(Get(file_obj, Str(<<"u", "r", "l">>)), Get(file_obj, Str(<<"s", "r", "c">>))), placeholder)
    ELSE placeholder

Resolved(apollo_, ref_key) ==
    IF ~Truthy(ref_key) THEN placeholder ELSE UrlOf(FileObj(apollo_, ref_key))

_resolve_image_url(apollo_, image_ref) == Resolved(apollo_, RefKey(image_ref))

\* not url_imagem or url_imagem.endswith(('.svg', '.gif'))
NeedsFallback(url_imagem) ==
    \/ url_imagem.s = <<>>
    \/ EndsWith(url_imagem.s, Str(<<".", "s", "v", "g">>))
    \/ EndsWith(url_imagem.s, Str(<<".", "g", "i", "f">>))

\* Lines 479-481
UrlImagem(apollo_, product_obj, from_html) ==
    IF from_html = RAISED THEN RAISED
    ELSE IF NeedsFallback(from_html) THEN _resolve_image_url(apollo_, Get(product_obj, Str(<<"i", "m", "a", "g", "e">>)))
    ELSE from_html

(***************************************************************************)
(* The body of the loop of buscar_produtos from the state on (lines        *)
(* 470-698): what it emits for a page, with what it consulted on the way.  *)
(***************************************************************************)
NoItem ==
    [outcome |-> "none", nome_produto |-> NoNode, from_html |-> NoNode, url_imagem |-> NoNode,
     pricing |-> NoNode, state_de |-> ZERO, state_por |-> ZERO,
     tiers |-> <<>>, tentativas |-> <<>>, campos |-> <<>>,
     preco_de_num |-> ZERO, preco_por_num |-> ZERO, porcentagem_desconto |-> 0]

\* continue: no product in the state
ItemSkipped == [NoItem EXCEPT !.outcome = "skipped"]

\* Lines 542-552: only a promotional price makes it the original too.
PrecoDeFinal(de, por) == IF de = ZERO /\ Gt(por, ZERO) THEN por ELSE de

\* A promotional price that is not found becomes the original one.
PrecoPorDefaulted(de, por) == IF por = ZERO THEN de ELSE por

\* Lines 546-549: pass, the promotional price stays as it is.
PrecoPorFinal(de, por) == por

\* Lines 540-698: the prices are settled, the discount computed and the
\* block of the product appended.
Settled(it, de, por) ==
    [it EXCEPT !.outcome = "emitted",
               !.preco_de_num = de,
               !.preco_por_num = por,
               !.porcentagem_desconto = Porcentagem(de, por)]

Emitted(it, de, por) == Settled(it, PrecoDeFinal(de, por), PrecoPorFinal(de, por))

WithCampos(it, de, campos) == Emitted([it EXCEPT !.campos = campos.tried], de, campos.por)

\* The fields of the state are gone through whatever the markup gave.
AfterMarkupAlways(apollo_, it, de, markup) ==
    IF markup.por = ZERO \/ StatePrice(apollo_, de).por # ZERO
    THEN WithCampos([it EXCEPT !.tentativas = markup.tried,
                               !.tiers = <<"state", "markup", "campos">>],
                    de, StatePrice(apollo_, de))
    ELSE Emitted([it EXCEPT !.tentativas = markup.tried, !.tiers = <<"state", "markup">>],
                 de, markup.por)

\* Lines 525-538: if preco_por_num == 0: <the fields of the state>
AfterMarkup(apollo_, it, de, markup) ==
    IF markup.por = ZERO
    THEN WithCampos([it EXCEPT !.tentativas = markup.tried,
                               !.tiers = <<"state", "markup", "campos">>],
                    de, StatePrice(apollo_, de))
    ELSE Emitted([it EXCEPT !.tentativas = markup.tried, !.tiers = <<"state", "markup">>],
                 de, markup.por)

\* Lines 489-538: if preco_por_num == 0 and preco_de_num > 0: <other sources>
Cascade(soup_, apollo_, it, de, por) ==
    IF por = ZERO /\ Gt(de, ZERO)
    THEN AfterMarkup(apollo_, it, de, MarkupPrice(soup_, de))
    ELSE Emitted([it EXCEPT !.tiers = <<"state">>], de, por)

\* Lines 483-487
WithPricing(soup_, apollo_, it, pricing) ==
    Cascade(soup_, apollo_,
            [it EXCEPT !.pricing = pricing,
                       !.state_de = PrecoDe(pricing),
                       !.state_por = PrecoPor(pricing)],
            PrecoDe(pricing), PrecoPor(pricing))

ItemRaised(it) == [it EXCEPT !.outcome = "raised"]

WithImage(soup_, apollo_, product, it) ==
    IF it.url_imagem = RAISED THEN ItemRaised(it)
    ELSE WithPricing(soup_, apollo_, it, _pick_pricing(apollo_, product.id))

\* Lines 478-481
WithFromHtml(soup_, apollo_, product, nome_produto, from_html) ==
    WithImage(soup_, apollo_, product,
              [NoItem EXCEPT !.nome_produto = nome_produto,
                             !.from_html = from_html,
                             !.url_imagem = UrlImagem(apollo_, product.obj, from_html)])

\* Line 476
WithName(soup_, apollo_, product, nome_produto) ==
    WithFromHtml(soup_, apollo_, product, nome_produto,
                 _extract_image_from_html(soup_, nome_produto))

GENERIC_NAME == StrNode(Str(<<"P", "r", "o", "d", "u", "t", "o", " ", "G", "e", "n">>) \o <<233>> \o Str(<<"r", "i", "c", "o">>))

\* Lines 470-476: if not product_obj: continue
WithProduct(soup_, apollo_, p) ==
    IF p = Unset \/ ~Truthy(p[1].obj) THEN ItemSkipped
    ELSE WithName(soup_, apollo_, p[1], Or(Get(p[1].obj, Str(<<"n", "a", "m", "e">>)), GENERIC_NAME))

Item(soup_, apollo_) == WithProduct(soup_, apollo_, _pick_product(apollo_))

(***************************************************************************)
(* Specification of the price cascade: the state of a page gets pricing    *)
(* objects and other objects, its markup gets price elements, and the body *)
(* of the loop is run on the page.                                         *)
(***************************************************************************)
MaxEntries == 3

MaxFragments == 2

Key(prefix, id) == prefix \o id

ProductObj(fields) == Dict(<<Pair(Str(<<"n", "a", "m", "e">>), StrNode(Str(<<"A">>)))>> \o fields)

\* The item of the product, of id 7, whose image is a reference to a file.
ProductEntry(fields) == Pair(Key(PRODUCT_PREFIX, Str(<<"7">>)), ProductObj(fields))

Fields(price, promocional) ==
    (IF price = Unset THEN <<>> ELSE <<Pair(PRICE, NumNode(price[1]))>>)
        \o (IF promocional = Unset THEN <<>> ELSE <<Pair(PROMOTIONAL_PRICE, NumNode(promocional[1]))>>)

Pricing(id, price, promocional) ==
    Pair(Key(PRICING_PREFIX, id), Dict(<<Pair(Str(<<"c", "u", "r", "r", "e", "n", "c", "y">>), StrNode(Str(<<"B", "R", "L">>)))>> \o Fields(price, promocional)))

\* Pricing objects of the product (7) with both prices, with the base
\* price only, with the promotional price only and with none; pricing
\* objects of other products; objects with fields named after a sale.
PriceEntryPool ==
    {Pricing(Str(<<"7">>), Holding(Str(<<"1", "0", "0">>)), Holding(Str(<<"8", "0">>))),
     Pricing(Str(<<"7", ":", "b">>), Holding(Str(<<"1", "0", "0">>)), Holding(Str(<<"7", "1">>))),
     Pricing(Str(<<"7", ":", "c">>), Holding(Str(<<"1", "0", "0">>)), Unset),
     Pricing(Str(<<"7", ":", "d">>), Unset, Unset),
     Pricing(Str(<<"7", ":", "e">>), Unset, Holding(Str(<<"8", "0">>))),
     Pricing(Str(<<"9">>), Holding(Str(<<"2", "0", "0">>)), Holding(Str(<<"1", "5", "0">>))),
     Pricing(Str(<<"8">>), Unset, Unset),
     Pair(Str(<<"O", "f", "f", "e", "r", ":", "1">>), Dict(<<Pair(Str(<<"s", "a", "l", "e", "P", "r", "i", "c", "e">>), NumNode(Str(<<"7", "5">>)))>>)),
     Pair(Str(<<"O", "f", "f", "e", "r", ":", "2">>), Dict(<<Pair(Str(<<"o", "n", "S", "a", "l", "e">>), Node("literal", TRUE_, <<>>))>>)),
     Pair(Str(<<"O", "f", "f", "e", "r", ":", "3">>), Dict(<<Pair(Str(<<"d", "i", "s", "c", "o", "u", "n", "t", "V", "a", "l", "u", "e">>), NumNode(Str(<<"1", "2", "0">>))),
                            Pair(Str(<<"d", "a", "t", "a">>), Dict(<<Pair(Str(<<"s", "a", "l", "e", "P", "r", "i", "c", "e">>), NumNode(Str(<<"5", "0">>)))>>))>>))}

Span(class, text) == <<El("span", class, <<>>, text, 0)>>

\* Price elements: of the first selector with a lower price, with a higher
\* price before a lower one, and with another lower price; of a later
\* selector; and a span without class in the wrapper of the active price.
PriceFragmentPool ==
    {Span(<<Str(<<"p", "r", "o", "m", "o", "t", "i", "o", "n">>)>>, Str(<<"R", "$", " ", "8", "0", ",", "0", "0">>)),
     Span(<<Str(<<"p", "r", "o", "m", "o", "t", "i", "o", "n">>)>>, Str(<<"d", "e", " ", "R", "$", " ", "1", "2", "0", ",", "0", "0", " ", "p", "o", "r", " ", "R", "$", " ", "9", "0", ",", "0", "0">>)),
     Span(<<Str(<<"p", "r", "o", "m", "o", "t", "i", "o", "n">>)>>, Str(<<" ", "6", "0", ".", "0", "0">>)),
     Span(<<Str(<<"s", "a", "l", "e", "-", "p", "r", "i", "c", "e">>)>>, Str(<<"R", "$", " ", "7", "5", ",", "5", "0">>)),
     <<El("div", <<Str(<<"p", "r", "o", "d", "u", "c", "t", "-", "r", "e", "n", "d", "e", "r", "e", "r", "-", "a", "c", "t", "i", "v", "e", "-", "p", "r", "i", "c", "e", "-", "w", "r", "a", "p", "p", "e", "r">>)>>, <<>>, <<>>, 0),
       El("span", <<>>, <<>>, Str(<<"R", "$", " ", "5", "0", ",", "0", "0">>), 1)>>}

ItemIdle ==
    /\ soup = <<>>
    /\ page_state = Dict(<<>>)
    /\ item = NoItem
    /\ item_pc = "build"

FileRef == Dict(<<Pair(Str(<<"_", "_", "r", "e", "f">>), StrNode(Str(<<"F", "i", "l", "e", ":", "1">>)))>>)

PriceInit ==
    /\ soup = <<>>
    /\ page_state = Dict(<<ProductEntry(<<Pair(Str(<<"i", "m", "a", "g", "e">>), FileRef)>>)>>)
    /\ item = NoItem
    /\ item_pc = "build"

\* soup with the fragment appended at the top of the document
Appended(soup_, fragment) ==
    soup_ \o [k \in 1..Len(fragment) |->
                 [fragment[k] EXCEPT !.parent =
                                IF fragment[k].parent = 0 THEN 0
                                ELSE fragment[k].parent + Len(soup_)]]

TopLevel(soup_) == {i \in 1..Len(soup_) : soup_[i].parent = 0}

AddEntry ==
    /\ item_pc = "build"
    /\ Len(page_state.kids) <= MaxEntries
    /\ \E entry \in PriceEntryPool :
            page_state' = Dict(PutPair(page_state.kids, entry.s, entry.kids[1]))
    /\ UNCHANGED <<soup, item, item_pc>>
    /\ UNCHANGED itemOthers

AddFragment ==
    /\ item_pc = "build"
    /\ Cardinality(TopLevel(soup)) < MaxFragments
    /\ \E fragment \in PriceFragmentPool : soup' = Appended(soup, fragment)
    /\ UNCHANGED <<page_state, item, item_pc>>
    /\ UNCHANGED itemOthers

\* One pass of the loop body on the page.
ProcessItem ==
    /\ item_pc = "build"
    /\ item' = Item(soup, page_state)
    /\ item_pc' = "done"
    /\ UNCHANGED <<soup, page_state>>
    /\ UNCHANGED itemOthers

PriceNext == AddEntry \/ AddFragment \/ ProcessItem

(***************************************************************************)
(* Specification of the image: the product refers to an image file or not, *)
(* the state gets file objects, the markup gets images, meta and link      *)
(* elements, and the body of the loop is run on the page.                  *)
(***************************************************************************)
ImageField(image_ref) == <<Pair(Str(<<"i", "m", "a", "g", "e">>), image_ref)>>

ProductPool ==
    {ProductEntry(ImageField(FileRef)),
     ProductEntry(ImageField(StrNode(Str(<<"F", "i", "l", "e", ":", "1">>)))),
     ProductEntry(ImageField(Dict(<<Pair(Str(<<"i", "d">>), StrNode(Str(<<"F", "i", "l", "e", ":", "2">>)))>>))),
     ProductEntry(<<>>)}

FileEntryPool ==
    {Pair(Str(<<"F", "i", "l", "e", ":", "1">>), Dict(<<Pair(Str(<<"u", "r", "l">>), StrNode(Str(<<"s", ".", "j", "p", "g">>)))>>)),
     Pair(Str(<<"F", "i", "l", "e", ":", "1">>), Dict(<<Pair(Str(<<"s", "r", "c">>), StrNode(Str(<<"t", ".", "j", "p", "g">>)))>>)),
     Pair(Str(<<"F", "i", "l", "e", ":", "1">>), Dict(<<Pair(Str(<<"a", "l", "t">>), StrNode(Str(<<"A">>)))>>)),
     Pair(Str(<<"F", "i", "l", "e", ":", "2">>), Dict(<<Pair(Str(<<"u", "r", "l">>), StrNode(Str(<<"u", ".", "j", "p", "g">>)))>>))}

Img(attrs) == <<El("img", <<>>, attrs, <<>>, 0)>>

\* The active image of the gallery; images whose source is a data-URI,
\* a vector image, blank, an animation without alt; an og:image meta and
\* an image_src link.
ImageFragmentPool ==
    {<<El("div", <<Str(<<"p", "r", "o", "d", "u", "c", "t", "-", "i", "m", "a", "g", "e", "-", "g", "a", "l", "l", "e", "r", "y", "-", "a", "c", "t", "i", "v", "e", "-", "i", "m", "a", "g", "e">>)>>, <<>>, <<>>, 0),
       El("img", <<>>, <<Attr("src", Str(<<"g", ".", "j", "p", "g">>)), Attr("alt", Str(<<"a">>))>>, <<>>, 1)>>,
     Img(<<Attr("src", Str(<<"d", "a", "t", "a", ":", "x">>)), Attr("alt", <<>>)>>),
     Img(<<Attr("src", Str(<<"p", ".", "s", "v", "g">>)), Attr("alt", Str(<<"z">>))>>),
     Img(<<Attr("src", Str(<<" ">>))>>),
     Img(<<Attr("src", Str(<<"n", ".", "g", "i", "f">>))>>),
     <<El("meta", <<>>, <<Attr("property", Str(<<"o", "g", ":", "i", "m", "a", "g", "e">>)), Attr("content", Str(<<"o", "g", ".", "j", "p", "g">>))>>, <<>>, 0)>>,
     <<El("link", <<>>, <<Attr("rel", Str(<<"i", "m", "a", "g", "e", "_", "s", "r", "c">>)), Attr("href", Str(<<"l", ".", "j", "p", "g">>))>>, <<>>, 0)>>}

ImageInit ==
    /\ soup = <<>>
    /\ \E product \in ProductPool : page_state = Dict(<<product>>)
    /\ item = NoItem
    /\ item_pc = "build"

AddFileEntry ==
    /\ item_pc = "build"
    /\ Len(page_state.kids) <= MaxEntries
    /\ \E entry \in FileEntryPool :
            page_state' = Dict(PutPair(page_state.kids, entry.s, entry.kids[1]))
    /\ UNCHANGED <<soup, item, item_pc>>
    /\ UNCHANGED itemOthers

AddImageFragment ==
    /\ item_pc = "build"
    /\ Cardinality(TopLevel(soup)) < MaxFragments
    /\ \E fragment \in ImageFragmentPool : soup' = Appended(soup, fragment)
    /\ UNCHANGED <<page_state, item, item_pc>>
    /\ UNCHANGED itemOthers

ImageNext == AddFileEntry \/ AddImageFragment \/ ProcessItem

(***************************************************************************)
(* Properties of the price cascade, on a page the loop body was run on     *)
(***************************************************************************)
Done == item_pc = "done" /\ item.outcome = "emitted"

KeyAt(n) == page_state.kids[n].s

ValueAt(n) == page_state.kids[n].kids[1]

\* The pricing objects of the state, and those of the product.
PricingItems ==
    {n \in 1..Len(page_state.kids) : StartsWith(KeyAt(n), PRICING_PREFIX) /\ IsDict(ValueAt(n))}

ProductKey == CHOOSE n \in 1..Len(page_state.kids) : StartsWith(KeyAt(n), PRODUCT_PREFIX)

ProductId == SubSeq(KeyAt(ProductKey), Len(PRODUCT_PREFIX) + 1, Len(KeyAt(ProductKey)))

ScopedItems == {n \in PricingItems : Contains(ProductId, KeyAt(n))}

ExposesPromo(v) == HasKey(v, PROMOTIONAL_PRICE)

ExposesBase(v) == HasKey(v, PRICE)

ExposingItems == {n \in PricingItems : ExposesPromo(ValueAt(n)) \/ ExposesBase(ValueAt(n))}

\* v goes before w under the sort key (promo field, base field), descending
Before(v, w) ==
    \/ ExposesPromo(v) /\ ~ExposesPromo(w)
    \/ ExposesPromo(v) = ExposesPromo(w) /\ ExposesBase(v) /\ ~ExposesBase(w)

\* The pricing object that was picked is the first of the best of S.
PickedFrom(S) ==
    \E n \in S :
        /\ item.pricing = ValueAt(n)
        /\ \A k \in S : ~Before(ValueAt(k), ValueAt(n))
        /\ \A k \in S : k < n => Before(ValueAt(n), ValueAt(k))

Hundred == [kind |-> "fin", m |-> 100, e |-> 0]

Eighty == [kind |-> "fin", m |-> 80, e |-> 0]

\* C11: when pricing objects have the product id in their key, the one
\* picked is one of them that exposes a promotional field rather than one
\* with a base field only (sort key: promo field, then base field,
\* descending; ties keep the order of the state); and a picked object with
\* price 100 and promotionalPrice 80 gives (100, 80) and discount 20.
C11_ScopedPricingPreferred ==
    (Done /\ ScopedItems # {}) =>
        /\ PickedFrom(ScopedItems)
        /\ (Get(item.pricing, PRICE) = NumNode(Str(<<"1", "0", "0">>))
                /\ Get(item.pricing, PROMOTIONAL_PRICE) = NumNode(Str(<<"8", "0">>))) =>
              /\ item.preco_de_num = Hundred
              /\ item.preco_por_num = Eighty
              /\ item.porcentagem_desconto = 20

\* A pricing object of the product with the base field only stands before
\* the one with both fields, which is picked and gives (100, 80) and 20.
C11_Witness ==
    /\ Done
    /\ \E n, k \in ScopedItems :
            /\ n < k
            /\ ExposesBase(ValueAt(n)) /\ ~ExposesPromo(ValueAt(n))
            /\ ExposesPromo(ValueAt(k)) /\ ExposesBase(ValueAt(k))
            /\ item.pricing = ValueAt(k)
    /\ item.preco_de_num = Hundred
    /\ item.preco_por_num = Eighty
    /\ item.porcentagem_desconto = 20

\* C12 (corrected): the scan of all pricing objects is made only when no
\* pricing key holds the product id: it then picks, among the pricing
\* objects that expose a price field, the first of the best, and nothing
\* when there is none; when a pricing key holds the product id, one of the
\* objects of the product is picked, also when it exposes no price field
\* and another pricing object exposes one.
C12_ScanOnlyWithoutScoped ==
    Done =>
        /\ (ScopedItems = {} /\ ExposingItems # {}) => PickedFrom(ExposingItems)
        /\ (ScopedItems = {} /\ ExposingItems = {}) => item.pricing = NoNode
        /\ ScopedItems # {} => \E n \in ScopedItems : item.pricing = ValueAt(n)

\* No pricing key holds the product id; a pricing object without price
\* field stands before one with price fields, which is picked.
C12_Witness ==
    /\ Done
    /\ ScopedItems = {}
    /\ \E n, k \in PricingItems :
            /\ n < k
            /\ n \notin ExposingItems
            /\ k \in ExposingItems
            /\ item.pricing = ValueAt(k)

\* C12 (original): when no pricing object of the product provides prices
\* (no pricing key holds the product id, or those that do expose neither
\* price field), one that exposes price fields is picked among all pricing
\* objects; an object without price field is never picked while another
\* pricing object exposes one.
C12_NoPricelessWhilePriced ==
    (Done /\ ExposingItems # {}) =>
        (ExposesPromo(item.pricing) \/ ExposesBase(item.pricing))

(***************************************************************************)
(* The promotional price of the markup                                     *)
(***************************************************************************)
Consulted(tier) == \E n \in 1..Len(item.tiers) : item.tiers[n] = tier

\* The value of a step is one the claim accepts: above 0, below the original
Acceptable(t) ==
    /\ t.valor # Unset
    /\ Gt(t.valor[1], ZERO)
    /\ Lt(t.valor[1], item.state_de)

\* Selector order, then document order.
Earlier(t, u) == t.selector < u.selector \/ (t.selector = u.selector /\ t.el < u.el)

\* The pairs of a selector and an element of the page that it selects.
Visits ==
    {v \in (1..Len(selectors_preco)) \X (1..Len(soup)) : Selects(soup, v[2], selectors_preco[v[1]])}

Visited(v) == \E n \in 1..Len(item.tentativas) :
                  item.tentativas[n].selector = v[1] /\ item.tentativas[n].el = v[2]

LastTentativa == item.tentativas[Len(item.tentativas)]

MarkupYielded == item.tentativas # <<>> /\ Acceptable(LastTentativa)

\* C14: the markup is gone through only when the promotional price of the
\* state is 0 and the original one above 0; the steps visit the selectors in
\* their order and the elements each selects in document order; every step
\* before the last one found no value above 0 and below the original price;
\* a last step that found one ends the scan and its value is the promotional
\* price; otherwise every selected element was visited and the markup left
\* the promotional price at 0.
C14_MarkupTier ==
    Done =>
        /\ Consulted("markup") <=> (item.state_por = ZERO /\ Gt(item.state_de, ZERO))
        /\ ~Consulted("markup") => item.tentativas = <<>>
        /\ \A n \in 1..Len(item.tentativas) :
              /\ <<item.tentativas[n].selector, item.tentativas[n].el>> \in Visits
              /\ n < Len(item.tentativas) =>
                    /\ Earlier(item.tentativas[n], item.tentativas[n + 1])
                    /\ ~Acceptable(item.tentativas[n])
        /\ \A v \in Visits :
              (item.tentativas # <<>> /\ Earlier([selector |-> v[1], el |-> v[2]], LastTentativa))
                  => Visited(v)
        /\ MarkupYielded => item.preco_por_num = LastTentativa.valor[1]
        /\ (Consulted("markup") /\ ~MarkupYielded) =>
              /\ \A v \in Visits : Visited(v)
              /\ ~Consulted("campos") => item.preco_por_num = ZERO

\* A first step finds a price that is not below the original one and changes
\* nothing, a later step finds a lower one, which is taken, and an element
\* that a later selector selects is not visited.
C14_Witness ==
    /\ Done
    /\ Len(item.tentativas) >= 2
    /\ item.tentativas[1].valor # Unset
    /\ ~Lt(item.tentativas[1].valor[1], item.state_de)
    /\ MarkupYielded
    /\ item.preco_por_num = LastTentativa.valor[1]
    /\ \E v \in Visits : ~Visited(v)

(***************************************************************************)
(* The order of the tiers                                                  *)
(***************************************************************************)
LastCampo == item.campos[Len(item.campos)]

CamposYielded == item.campos # <<>> /\ Acceptable(LastCampo)

\* C16: the tiers are consulted in the order state, markup, fields of the
\* state; a promotional price of the state keeps the markup and the fields
\* from being consulted, a value taken from the markup keeps the fields
\* from being consulted, and the value of the first tier that gave one is
\* the promotional price.
C16_TierOrder ==
    Done =>
        /\ item.tiers \in {<<"state">>, <<"state", "markup">>, <<"state", "markup", "campos">>}
        /\ item.state_por # ZERO =>
              /\ item.tiers = <<"state">>
              /\ item.preco_por_num = item.state_por
        /\ MarkupYielded =>
              /\ item.tiers = <<"state", "markup">>
              /\ item.preco_por_num = LastTentativa.valor[1]
        /\ ~Consulted("markup") => item.tentativas = <<>>
        /\ ~Consulted("campos") => item.campos = <<>>
        /\ Consulted("campos") => (item.state_por = ZERO /\ ~MarkupYielded)

\* The markup gives a price although a field of the state holds another
\* one that would be taken: the fields are not consulted.
C16_Witness ==
    /\ Done
    /\ MarkupYielded
    /\ item.tiers = <<"state", "markup">>
    /\ item.campos = <<>>
    /\ \E n \in 1..Len(Campos(page_state)) :
          /\ Acceptable(Campos(page_state)[n])
          /\ Campos(page_state)[n].valor[1] # item.preco_por_num

(***************************************************************************)
(* The prices that are settled                                             *)
(***************************************************************************)
NothingYielded == item.state_por = ZERO /\ ~MarkupYielded /\ ~CamposYielded

\* C17: with an original price and no promotional price from the state, the
\* markup or the fields of the state, the prices are (original, 0) and the
\* discount 0; with no price at all both are 0, and the product is emitted.
C17_OnlyOriginal ==
    (item_pc = "done" /\ item.outcome # "skipped" /\ NothingYielded) =>
        /\ item.outcome = "emitted"
        /\ item.preco_de_num = item.state_de
        /\ item.preco_por_num = ZERO
        /\ item.porcentagem_desconto = 0

\* The original price is 100, the markup and the fields of the state were
\* gone through and gave nothing that is taken: (100, 0), discount 0.
C17_Witness ==
    /\ Done
    /\ item.state_de = Hundred
    /\ item.tentativas # <<>>
    /\ item.campos # <<>>
    /\ NothingYielded
    /\ item.preco_de_num = Hundred
    /\ item.preco_por_num = ZERO
    /\ item.porcentagem_desconto = 0

(***************************************************************************)
(* The discount                                                            *)
(***************************************************************************)
\* C18: with an original price above 0 and a promotional price that was
\* resolved and is below it, the discount is
\* floor(100 * (original - promo) / original) of the exact amounts (in
\* hundredths), and it is never negative.
C18_DiscountFloor ==
    Done =>
        /\ item.porcentagem_desconto >= 0
        /\ (Gt(item.preco_de_num, ZERO) /\ Gt(item.preco_por_num, ZERO)
                /\ Lt(item.preco_por_num, item.preco_de_num)) =>
              item.porcentagem_desconto =
                  PercentExact(item.preco_de_num, item.preco_por_num, item.preco_de_num, 2)

\* C19: the discount of an emitted product is 0 unless the original price
\* is above the promotional price and this one above 0; an original price
\* of 0 gives no discount, and whatever the prices are the product is
\* emitted (nothing is raised by the division).
C19_DiscountGuard ==
    (item_pc = "done" /\ item.outcome # "skipped") =>
        /\ item.outcome = "emitted"
        /\ item.porcentagem_desconto # 0 =>
              (Gt(item.preco_de_num, item.preco_por_num) /\ Gt(item.preco_por_num, ZERO))
        /\ item.state_de = ZERO => item.porcentagem_desconto = 0

\* Products with an original price and no promotional one, and with a
\* promotional price only, which becomes the original one: discount 0.
C19_Witness ==
    /\ Done
    /\ item.porcentagem_desconto = 0
    /\ \/ Gt(item.preco_de_num, ZERO) /\ item.preco_por_num = ZERO
       \/ item.state_de = ZERO /\ Gt(item.state_por, ZERO) /\ item.preco_de_num = item.state_por

(***************************************************************************)
(* The promotional price of the fields of the state                        *)
(***************************************************************************)
\* The numbers held, at any depth of v, by a field whose name holds
\* "promotion", "sale" or "discount".
RECURSIVE DeepNumbers(_)
DeepNumbers(v) ==
    IF v.t = "object"
    THEN UNION {(IF PromoField(v.kids[k].s) /\ v.kids[k].kids[1].t = "number"
                 THEN {_to_float(v.kids[k].kids[1])} ELSE {})
                \cup DeepNumbers(v.kids[k].kids[1]) : k \in 1..Len(v.kids)}
    ELSE IF v.t = "array" THEN UNION {DeepNumbers(v.kids[k]) : k \in 1..Len(v.kids)}
    ELSE {}

DeepHits == {x \in DeepNumbers(page_state) : Gt(x, ZERO) /\ Lt(x, item.state_de)}

\* C15: the fields of the state are gone through only when the state and
\* the markup left the promotional price at 0 and the original price is
\* above 0; the promotional price is then a number, held at any depth of
\* the state by a field named after a promotion, a sale or a discount, that
\* is above 0 and below the original price, and it stays 0 when there is no
\* such number (a boolean is not one).
C15_KeyNameTier ==
    Done =>
        /\ Consulted("campos") <=>
              (item.state_por = ZERO /\ ~MarkupYielded /\ Gt(item.state_de, ZERO))
        /\ (Consulted("campos") /\ DeepHits = {}) => item.preco_por_num = ZERO
        /\ (Consulted("campos") /\ DeepHits # {}) => item.preco_por_num \in DeepHits

(***************************************************************************)
(* The image of the state                                                  *)
(***************************************************************************)
\* What the reference of the product resolves to in the state.
StateImage == _resolve_image_url(page_state, Get(ValueAt(ProductKey), Str(<<"i", "m", "a", "g", "e">>)))

DisallowedExtension(url) ==
    \/ EndsWith(url.s, Str(<<".", "s", "v", "g">>))
    \/ EndsWith(url.s, Str(<<".", "g", "i", "f">>))

\* C20: when the markup gives no usable image, or one that ends in .svg or
\* .gif, and the image reference of the product resolves in the state to
\* an object with a url or a src, the image of the product is that URL of
\* the state and not the placeholder.
C20_StateImageFallback ==
    (Done /\ StateImage # placeholder
          /\ (item.from_html = placeholder \/ DisallowedExtension(item.from_html))) =>
        item.url_imagem = StateImage

(***************************************************************************)
(* Properties of the image of a product                                    *)
(***************************************************************************)
Tags(tag) == {i \in 1..Len(soup) : soup[i].tag = tag}

\* The og:image metas of the page that have a content.
OgMetas ==
    {i \in Tags("meta") :
        /\ AttrOf(soup[i], "property").s = Str(<<"o", "g", ":", "i", "m", "a", "g", "e">>)
        /\ strip(AttrOf(soup[i], "content").s) # <<>>}

FirstOgMeta == CHOOSE i \in OgMetas : \A k \in OgMetas : i <= k

C28_NoDataUri ==
    Done => ~StartsWith(item.from_html.s, Str(<<"d", "a", "t", "a", ":">>))

(***************************************************************************)
(* The life of the cache of the loader                                     *)
(***************************************************************************)
LoadedBy == {"sheets_csv", "sheets_api", "local"}

\* C29: the cache is unset when the process starts; it is never an empty
\* list; it is written only by a load that got at least one record, with
\* the whole list of the one source that gave it; and once it holds a list
\* it changes only in a load called with force_reload.
C29_CacheLifecycle ==
    /\ _produtos_cache = Unset
    /\ [](_produtos_cache = Unset \/ _produtos_cache[1] # <<>>)
    /\ [](last_outcome \in LoadedBy =>
            /\ _produtos_cache = Holding(last_ret)
            /\ last_ret = Yield(last_outcome))
    /\ [][_produtos_cache' # _produtos_cache =>
            /\ last_outcome' \in LoadedBy
            /\ last_ret' # <<>>
            /\ _produtos_cache' = Holding(last_ret')
            /\ (_produtos_cache # Unset => last_call'.force_reload)]_vars

\* A load with force_reload has put the list of another source in the
\* place of the list that the cache held.
C29_Witness ==
    /\ last_outcome \in LoadedBy
    /\ last_call.force_reload
    /\ last_call.cache_before # Unset
    /\ _produtos_cache # last_call.cache_before
    /\ _produtos_cache = Holding(last_ret)

(***************************************************************************)
(* A caller of the loader that changes the list it was given.  The list    *)
(* that lines 56, 72, 89 and 223 return is the object that the cache       *)
(* names; the list of line 241 is the local `produtos`.                    *)
(***************************************************************************)
CallerRecord ==
    [sku |-> Str(<<"x">>), nome |-> Str(<<"x">>), ean |-> Str(<<"x">>), imagem |-> Str(<<"x">>), url |-> Str(<<"x">>)]

\* What the caller wrote is seen in the list.
Touched(produtos) ==
    \E n \in 1..Len(produtos) : produtos[n] = CallerRecord \/ produtos[n].nome = Str(<<"x">>)

\* The last load returned the list of the cache itself.
ReturnedTheCache == last_outcome \in (LoadedBy \cup {"cached"})

\* What a caller may do to the list: append a record, write in a record.
Mutations(produtos) ==
    {Append(produtos, CallerRecord)}
        \cup {[produtos EXCEPT ![n].nome = Str(<<"x">>)] : n \in 1..Len(produtos)}

CallerMutates ==
    /\ last_outcome \notin {"none", "raised"}
    /\ ~Touched(last_ret)
    /\ \E changed \in Mutations(last_ret) \ {last_ret} :
            /\ last_ret' = changed
            /\ _produtos_cache' = IF ReturnedTheCache THEN Holding(changed) ELSE _produtos_cache
    /\ UNCHANGED <<environ, sheets_module, sheet, disk, clock, _cache_timestamp, last_call,
                   last_reads, last_outcome, first_load, termo_busca, produto_achado>>
    /\ UNCHANGED loadOthers

OwnerInit == LoadInit

OwnerNext == Load \/ SheetChanges \/ WriteFile \/ RemoveFile \/ Tick \/ CallerMutates

\* C26: callers get copies of the records of the cache: what a caller
\* changes in the list or in the records that a load returned is never
\* seen in the cache.
C26_CallersGetCopies ==
    _produtos_cache # Unset => ~Touched(_produtos_cache[1])

(***************************************************************************)
(* The undefined values of an embedded state (app.py,                      *)
(* _extract_apollo_state, line 307): pages that embed a state with         *)
(* undefined values, and the JSON text each of them stands for.            *)
(***************************************************************************)
Undefined(text, meant) == [text |-> text, meant |-> meant]

\* undefined after a colon and a space, after a colon, after both in one
\* object, as an element of an array, and inside a string value.
UndefinedPool ==
    {Undefined(Str(<<"{", "\"", "p", "\"", ":", " ", "u", "n", "d", "e", "f", "i", "n", "e", "d", "}">>), Str(<<"{", "\"", "p", "\"", ":", " ", "n", "u", "l", "l", "}">>)),
     Undefined(Str(<<"{", "\"", "p", "\"", ":", "u", "n", "d", "e", "f", "i", "n", "e", "d", "}">>), Str(<<"{", "\"", "p", "\"", ":", "n", "u", "l", "l", "}">>)),
     Undefined(Str(<<"{", "\"", "p", "\"", ":", " ", "u", "n", "d", "e", "f", "i", "n", "e", "d", ",", "\"", "q", "\"", ":", "u", "n", "d", "e", "f", "i", "n", "e", "d", ",", "\"", "r", "\"", ":", "1", "}">>), Str(<<"{", "\"", "p", "\"", ":", " ", "n", "u", "l", "l", ",", "\"", "q", "\"", ":", "n", "u", "l", "l", ",", "\"", "r", "\"", ":", "1", "}">>)),
     Undefined(Str(<<"{", "\"", "a", "\"", ":", "[", "u", "n", "d", "e", "f", "i", "n", "e", "d", "]", "}">>), Str(<<"{", "\"", "a", "\"", ":", "[", "n", "u", "l", "l", "]", "}">>)),
     Undefined(Str(<<"{", "\"", "a", "\"", ":", "[", "1", ",", " ", "u", "n", "d", "e", "f", "i", "n", "e", "d", "]", "}">>), Str(<<"{", "\"", "a", "\"", ":", "[", "1", ",", " ", "n", "u", "l", "l", "]", "}">>)),
     Undefined(Str(<<"{", "\"", "s", "\"", ":", "\"", "x", ":", " ", "u", "n", "d", "e", "f", "i", "n", "e", "d", "\"", "}">>), Str(<<"{", "\"", "s", "\"", ":", "\"", "x", ":", " ", "u", "n", "d", "e", "f", "i", "n", "e", "d", "\"", "}">>))}

RewriteInit == ExtractIdle

\* The page assigns such a state to the marker.
EmbedUndefined ==
    /\ extract_pc = "write"
    /\ n_pieces < MaxPieces
    /\ embedded = Unset
    /\ \E object \in UndefinedPool :
            /\ script_text' = script_text \o MARKER \o Str(<<" ", "=", " ">>) \o object.text
            /\ embedded' = Holding([at |-> Len(script_text) + 1, text |-> object.text,
                                    meant |-> object.meant])
    /\ n_pieces' = n_pieces + 1
    /\ UNCHANGED <<apollo, extract_pc>>
    /\ UNCHANGED extractOthers

RewriteNext == WriteMarkup \/ EmbedUndefined \/ ExtractApolloState

\* The state of the page stands after the first marker of the text.
EmbeddedFirst == embedded # Unset /\ MarkerAt = embedded[1].at

\* C27: every undefined that stands for a value in the slice (after a
\* colon, with or without a space, and as an element of an array) is read
\* as null, so that a state whose only fault is its undefined values is
\* parsed, to the value its text stands for; an undefined inside a string
\* value stays as it is.
C27_UndefinedIsNull ==
    (extract_pc = "done" /\ EmbeddedFirst) =>
        /\ apollo.kind = "state"
        /\ apollo.value = JsonLoads(embedded[1].meant).val

(***************************************************************************)
(* The batch (app.py, buscar_produtos, lines 426-456 and 698-712): the     *)
(* loop over produtos_info.  An item of the list is known by what its page *)
(* makes of the loop body: "blank" (no url), "unreachable" (the download   *)
(* raises), "no_script", "no_state", "no_product" (the three `continue` of *)
(* lines 461-473), "raises" (an exception leaves the body, as for a        *)
(* product whose name is no str), "product" (its block is appended).  The  *)
(* loop reads the list item by item and never looks ahead, so the list is  *)
(* written here as it is read.                                             *)
(***************************************************************************)
ItemCap == 50

Failures == {"unreachable", "no_script", "no_state", "no_product"}

ItemKinds == {"blank", "raises", "product"} \cup Failures

RECURSIVE Decimal(_)
Decimal(n) == IF n < 10 THEN <<48 + n>> ELSE Decimal(n \div 10) \o <<48 + (n % 10)>>

\* f"{n:02d}": at least two digits, padded with zeros
TwoDigits(n) == IF n < 10 THEN <<48>> \o Decimal(n) ELSE Decimal(n)

\* f"produto {contador_produto:02d}"
utm_medium_automatico(contador) == Str(<<"p", "r", "o", "d", "u", "t", "o", " ">>) \o TwoDigits(contador)

\* quote_plus, for letters, digits and spaces
quote_plus(text) == [i \in 1..Len(text) |-> IF text[i] = 32 THEN PLUS ELSE text[i]]

\* What one pass of the loop leaves: the counter, the blocks, the downloads
\* and where the loop goes on.
Pass(contador, blocks, gets, pc) ==
    [contador_produto |-> contador, todos_os_produtos_html |-> blocks, fetched |-> gets, pc |-> pc]

\* A url that is empty takes a value of the counter.
AfterBlankCounted(contador) == contador + 1

\* Lines 443-444: if not url: continue, before the counter is touched
AfterBlank(contador) == contador

\* A limit on the blocks that were appended.
PastCapOfBlocks(contador, blocks) == Len(blocks) >= ItemCap

\* Line 447: if contador_produto > 50
PastCap(contador, blocks) == contador > ItemCap

\* A counter that a failed download gives back.
AfterFailureGivenBack(contador) == contador - 1

\* Lines 454-456 and 461-473: continue; the counter keeps the value it took.
AfterFailure(contador) == contador

\* A failure that throws the blocks away.
DroppedAll(blocks) == <<>>

\* continue: the blocks that were appended stay.
Dropped(blocks) == blocks

\* Lines 565-566 and 698: the block of the product, with its utm_medium.
Block(position, contador) ==
    [item |-> position, contador |-> contador,
     utm_medium |-> quote_plus(utm_medium_automatico(contador))]

\* Lines 451-698: the download and the body, for an item within the limit.
Attempt(kind, position, contador, blocks, gets) ==
    IF kind \in Failures THEN Pass(AfterFailure(contador), Dropped(blocks), gets, "loop")
    ELSE IF kind = "raises" THEN Pass(contador, blocks, gets, "raised")
    ELSE Pass(contador, Append(blocks, Block(position, contador)), gets, "loop")

\* Lines 446-449: the counter, then the limit.
Counted(kind, position, contador, blocks, gets) ==
    IF PastCap(contador, blocks) THEN Pass(contador, blocks, gets, "broke")
    ELSE Attempt(kind, position, contador, blocks, Append(gets, position))

\* Lines 437-698: one pass of the loop.
Iteration(kind, position, contador, blocks, gets) ==
    IF kind = "blank" THEN Pass(AfterBlank(contador), blocks, gets, "loop")
    ELSE Counted(kind, position, contador + 1, blocks, gets)

(***************************************************************************)
(* Specification of the batch.  The first MaxMixed items and the items     *)
(* from the MaxTail-th attempt before the limit on are of any kind, the    *)
(* items between are products; a list holds at most MaxBlanks items        *)
(* without url.                                                            *)
(***************************************************************************)
MaxMixed == 2

MaxBlanks == 1

MaxTail == 1

MaxItems == 53

BatchIdle ==
    /\ produtos_info = <<>>
    /\ contador_produto = 0
    /\ todos_os_produtos_html = <<>>
    /\ fetched = <<>>
    /\ session = "none"
    /\ batch_pc = "idle"

BatchInit == BatchIdle

Blanks == Cardinality({n \in 1..Len(produtos_info) : produtos_info[n] = "blank"})

KindsNow ==
    IF Len(produtos_info) < MaxMixed \/ contador_produto >= ItemCap - MaxTail
    THEN IF Blanks < MaxBlanks THEN ItemKinds ELSE ItemKinds \ {"blank"}
    ELSE {"product"}

\* Lines 426-435: the session is made, the list of blocks and the counter.
StartBatch ==
    /\ batch_pc = "idle"
    /\ session' = "open"
    /\ batch_pc' = "loop"
    /\ UNCHANGED <<produtos_info, contador_produto, todos_os_produtos_html, fetched>>
    /\ UNCHANGED batchOthers

Went(kind, r) ==
    /\ produtos_info' = Append(produtos_info, kind)
    /\ contador_produto' = r.contador_produto
    /\ todos_os_produtos_html' = r.todos_os_produtos_html
    /\ fetched' = r.fetched
    /\ batch_pc' = r.pc

\* for produto_info in produtos_info: the next item of the list.
Iterate ==
    /\ batch_pc = "loop"
    /\ Len(produtos_info) < MaxItems
    /\ \E kind \in KindsNow :
            Went(kind, Iteration(kind, Len(produtos_info) + 1, contador_produto,
                                 todos_os_produtos_html, fetched))
    /\ UNCHANGED session
    /\ UNCHANGED batchOthers

\* Lines 701-712: the end of the list or the break; the blocks are joined
\* and returned.  No statement closes the session.
ReturnEmail ==
    /\ batch_pc \in {"loop", "broke"}
    /\ batch_pc' = "returned"
    /\ UNCHANGED <<produtos_info, contador_produto, todos_os_produtos_html, fetched, session>>
    /\ UNCHANGED batchOthers

BatchNext == StartBatch \/ Iterate \/ ReturnEmail

(***************************************************************************)
(* Properties of the batch                                                 *)
(***************************************************************************)
\* The items of the list that have a url, in the order of the list.
WithUrl == SelectSeq([p \in 1..Len(produtos_info) |-> p],
                     LAMBDA p : produtos_info[p] # "blank")

\* The first 50 of them.
Attempted == SubSeq(WithUrl, 1, Min(Len(WithUrl), ItemCap))

Running == batch_pc \in {"loop", "broke", "returned"}

BlockItems == [n \in 1..Len(todos_os_produtos_html) |-> todos_os_produtos_html[n].item]

\* C22: at most 50 items are handed to the download in one batch; the
\* items count from their attempt and not from their success: the items
\* downloaded are the first 50 items with a url, whatever their pages give;
\* the loop ends at the first item past the 50th attempted one, which is
\* neither downloaded nor emitted, and reads no item after it.
C22_ItemCap ==
    LET urls == WithUrl
    IN  /\ Len(fetched) <= ItemCap
        /\ Len(todos_os_produtos_html) <= ItemCap
        /\ Len(urls) <= ItemCap + 1
        /\ fetched = SubSeq(urls, 1, Min(Len(urls), ItemCap))
        /\ \A n \in 1..Len(todos_os_produtos_html) :
              /\ todos_os_produtos_html[n].contador \in 1..Len(fetched)
              /\ todos_os_produtos_html[n].item =
                    urls[todos_os_produtos_html[n].contador]
        /\ Len(urls) = ItemCap + 1 =>
              /\ batch_pc \in {"broke", "returned"}
              /\ urls[ItemCap + 1] = Len(produtos_info)

\* A batch that returned after the break: 50 items were downloaded, some of
\* them failed, and the 51st item with a url was left alone.
C22_Witness ==
    /\ batch_pc = "returned"
    /\ Len(fetched) = ItemCap
    /\ Len(todos_os_produtos_html) < ItemCap
    /\ Len(WithUrl) = ItemCap + 1
    /\ fetched[ItemCap] < Len(produtos_info)

\* The items that were attempted and whose page gave a product.
Survivors == SelectSeq(Attempted, LAMBDA p : produtos_info[p] = "product")

ProdutoPlus == Str(<<"p", "r", "o", "d", "u", "t", "o", "+">>)

\* "produto+NN", for a counter below 100
Medium(n) == ProdutoPlus \o <<48 + (n \div 10), 48 + (n % 10)>>

\* C24: the counter is taken before the download, so a block carries the
\* place of its item among the attempts and an item that failed keeps the
\* value it took; with three urls of which the second fails, the blocks are
\* those of items 1 and 3, with the places 1 and 3; the counters of the
\* blocks grow strictly.
C24_TrackingCounter ==
    Running =>
        /\ \A n \in 1..Len(todos_os_produtos_html) :
              /\ todos_os_produtos_html[n].contador \in 1..Len(fetched)
              /\ fetched[todos_os_produtos_html[n].contador] = todos_os_produtos_html[n].item
              /\ todos_os_produtos_html[n].utm_medium =
                    Medium(todos_os_produtos_html[n].contador)
              /\ n > 1 => todos_os_produtos_html[n].contador
                              > todos_os_produtos_html[n - 1].contador
        /\ contador_produto >= Len(fetched)
        /\ produtos_info = <<"product", "unreachable", "product">> =>
              /\ BlockItems = <<1, 3>>
              /\ todos_os_produtos_html[1].utm_medium = Str(<<"p", "r", "o", "d", "u", "t", "o", "+", "0", "1">>)
              /\ todos_os_produtos_html[2].utm_medium = Str(<<"p", "r", "o", "d", "u", "t", "o", "+", "0", "3">>)

\* The batch of three urls of which the second fails has returned.
C24_Witness ==
    /\ batch_pc = "returned"
    /\ produtos_info = <<"product", "unreachable", "product">>
    /\ BlockItems = <<1, 3>>
    /\ todos_os_produtos_html[2].contador = 3

\* C25: the session of a batch is closed when the batch has returned,
\* whatever the number of items that failed and also after the break at
\* the limit.
C25_SessionClosed ==
    batch_pc = "returned" => session = "closed"

\* C30: an item without url is skipped before the counter: it is not
\* downloaded, takes no value of the counter and does not count for the
\* limit, so the counter is the number of items with a url that were read
\* and the block of an item carries its place among the items with a url,
\* not its place in the list.
C30_BlankUrlSkipped ==
    LET urls == WithUrl
    IN  /\ contador_produto = Len(urls)
        /\ \A n \in 1..Len(fetched) : produtos_info[fetched[n]] # "blank"
        /\ \A n \in 1..Len(todos_os_produtos_html) :
              LET k == todos_os_produtos_html[n].contador
              IN  /\ k \in 1..Len(urls)
                  /\ urls[k] = todos_os_produtos_html[n].item
                  /\ todos_os_produtos_html[n].utm_medium = Medium(k)
        /\ batch_pc = "broke" => Len(urls) = ItemCap + 1

\* An item without url stands before a product, whose block carries the
\* place 1, and the break comes at the 52nd item of the list.
C30_Witness ==
    /\ batch_pc = "broke"
    /\ Len(produtos_info) = ItemCap + 2
    /\ produtos_info[1] = "blank"
    /\ todos_os_produtos_html[1].item = 2
    /\ todos_os_produtos_html[1].utm_medium = Str(<<"p", "r", "o", "d", "u", "t", "o", "+", "0", "1">>)

(***************************************************************************)
(* Specifications                                                          *)
(***************************************************************************)
HeaderSpecInit ==
    HeaderInit /\ RowsIdle /\ ProbeIdle /\ LoadStill /\ ExtractIdle /\ CoerceIdle /\ ItemIdle /\ BatchIdle

SpecHeader == HeaderSpecInit /\ [][HeaderNext]_vars

RowsSpecInit ==
    RowsInit /\ HeaderIdle /\ ProbeIdle /\ LoadStill /\ ExtractIdle /\ CoerceIdle /\ ItemIdle /\ BatchIdle

SpecRows == RowsSpecInit /\ [][RowsNext]_vars

ProbeSpecInit ==
    ProbeInit /\ HeaderIdle /\ RowsIdle /\ LoadStill /\ ExtractIdle /\ CoerceIdle /\ ItemIdle /\ BatchIdle

SpecProbe == ProbeSpecInit /\ [][ProbeNext]_vars

LoadSpecInit ==
    LoadInit /\ HeaderIdle /\ RowsIdle /\ ProbeIdle /\ ExtractIdle /\ CoerceIdle /\ ItemIdle /\ BatchIdle

SpecLoad == LoadSpecInit /\ [][LoadNext]_vars

LookupSpecInit ==
    LookupInit /\ HeaderIdle /\ RowsIdle /\ ProbeIdle /\ ExtractIdle /\ CoerceIdle /\ ItemIdle /\ BatchIdle

SpecLookup == LookupSpecInit /\ [][LookupNext]_vars

OwnerSpecInit ==
    OwnerInit /\ HeaderIdle /\ RowsIdle /\ ProbeIdle /\ ExtractIdle /\ CoerceIdle /\ ItemIdle /\ BatchIdle

SpecOwner == OwnerSpecInit /\ [][OwnerNext]_vars

ExtractSpecInit ==
    ExtractInit /\ HeaderIdle /\ RowsIdle /\ ProbeIdle /\ LoadStill /\ CoerceIdle /\ ItemIdle /\ BatchIdle

SpecExtract == ExtractSpecInit /\ [][ExtractNext]_vars

RewriteSpecInit ==
    RewriteInit /\ HeaderIdle /\ RowsIdle /\ ProbeIdle /\ LoadStill /\ CoerceIdle /\ ItemIdle /\ BatchIdle

SpecRewrite == RewriteSpecInit /\ [][RewriteNext]_vars

CoerceSpecInit ==
    CoerceInit /\ HeaderIdle /\ RowsIdle /\ ProbeIdle /\ LoadStill /\ ExtractIdle /\ ItemIdle /\ BatchIdle

SpecCoerce == CoerceSpecInit /\ [][CoerceNext]_vars

PriceSpecInit ==
    PriceInit /\ HeaderIdle /\ RowsIdle /\ ProbeIdle /\ LoadStill /\ ExtractIdle /\ CoerceIdle /\ BatchIdle

SpecPrice == PriceSpecInit /\ [][PriceNext]_vars

ImageSpecInit ==
    ImageInit /\ HeaderIdle /\ RowsIdle /\ ProbeIdle /\ LoadStill /\ ExtractIdle /\ CoerceIdle /\ BatchIdle

SpecImage == ImageSpecInit /\ [][ImageNext]_vars

BatchSpecInit ==
    BatchInit /\ HeaderIdle /\ RowsIdle /\ ProbeIdle /\ LoadStill /\ ExtractIdle /\ CoerceIdle /\ ItemIdle

SpecBatch == BatchSpecInit /\ [][BatchNext]_vars

====
